---- MODULE Spec2Model ----
(***************************************************************************)
(* Verification model of the dx-clan genealogy tools.                      *)
(*                                                                         *)
(*   Spec       the in-memory pipeline of backend/scripts/smart_parser.py: *)
(*              parse_ocr_pages, build_persons_dict, and export_to_json's  *)
(*              merge_duplicates and share_children_between_spouses.       *)
(*   SpecDated  the same pipeline on lines with dates and a digit 0.       *)
(*   SpecDedup  one run of backend/scripts/deduplicate.py against a        *)
(*              populated database.                                        *)
(*   SpecBirths the same run against persons of one name that differ in    *)
(*              birth year.                                                *)
(*   SpecScore  database edits through the services of backend/app,        *)
(*              followed by the canonical selection of deduplicate.py.     *)
(*   SpecMarry  concurrent calls of RelationshipService.create_marriage.   *)
(***************************************************************************)
EXTENDS Integers, Sequences, FiniteSets, TLC

VARIABLES
    pc,              \* position of main(): "parse", "build", "merge", "share", "done"
    line_no,         \* number of logical lines parse_ocr_pages has consumed
    gen_stack,       \* parse_ocr_pages: generation -> most recent name at it
    entries,         \* parse_ocr_pages: list of (entry, parent_name, page_num)
    bi,              \* build_persons_dict: number of entries already processed
    persons,         \* the persons dict, in insertion order
    parents_set,     \* build_persons_dict: keys whose parent has been set
    current_person,  \* build_persons_dict: key of the current regular person
    db_persons,      \* table persons: id -> row
    parent_child,    \* table parent_child: set of <<parent_id, child_id>>
    marriages,       \* table marriages: set of <<spouse1_id, spouse2_id>>
    person_aliases,  \* table person_aliases: <<person_id, alias_name>> -> rows
    dry_run,         \* run_deduplication: not --execute
    mode,            \* run_deduplication: "exact" or "fuzzy"
    dpc,             \* position of run_deduplication
    duplicates,      \* run_deduplication: the clusters, in dict order
    processed,       \* run_deduplication: clusters taken so far
    scored,          \* select_canonical: (score, record) in input order
    canonical,       \* run_deduplication: the canonical record (as fetched)
    dups,            \* run_deduplication: duplicates not yet merged
    api_calls,       \* number of service calls made so far
    runs,            \* number of times deduplicate.py has been started
    normalizer,      \* the normalizer under call: "clean_line", "normalize_text"
    text,            \* its argument, then its result: a sequence of characters
    passes,          \* number of times the normalizer has been applied
    page_lines,      \* preprocess_lines: lines, as f.readlines() returns them
    pp_i,            \* preprocess_lines: i
    pp_processed,    \* preprocess_lines: processed
    qa_persons,      \* check_impossible_dates: persons
    qa_i,            \* check_impossible_dates: records gone through
    issues,          \* check_impossible_dates: issues
    requests         \* create_marriage: the calls in flight, each with its position

parserVars == <<pc, line_no, gen_stack, entries, bi, persons, parents_set,
                current_person>>

dbVars == <<db_persons, parent_child, marriages, person_aliases>>

runVars == <<dry_run, mode, dpc, duplicates, processed, scored, canonical,
             dups>>

dedupVars == <<dbVars, runVars, api_calls, runs>>

normalizeVars == <<normalizer, text, passes>>

preprocessVars == <<page_lines, pp_i, pp_processed>>

qaVars == <<qa_persons, qa_i, issues>>

toolVars == <<normalizeVars, preprocessVars, qaVars, requests>>

vars == <<parserVars, dedupVars, toolVars>>

----------------------------------------------------------------------------
(* Values *)

\* Python's None for an Optional[int] field.
NONE == -1

\* if x: ... on an Optional[int]
Truthy(x) == x # NONE /\ x # 0

\* Display names as the documents write them; the k-th distinct person of a
\* run is Names[k] (runs are enumerated up to renaming of the persons).
Names == <<"Al", "Bo", "Cy">>

\* str.lower()
Lower(n) ==
    CASE n = "Al" -> "al"
      [] n = "Bo" -> "bo"
      [] n = "Cy" -> "cy"
      [] OTHER -> n

\* None where a name is expected, and a cleaned name is_valid_name rejects.
NoName == "-"
JunkName == "19"

Generations == {1, 2}
BirthYears == {NONE, 1900}
DeathYears == {NONE}

\* Bounds of the model.
MaxLines == 4
LinesPerPage == 2

\* parse_ocr_pages(start_page=3)
start_page == 3

Contains(s, x) == \E i \in 1..Len(s) : s[i] = x
AppendNew(s, x) == IF Contains(s, x) THEN s ELSE Append(s, x)
SeqSet(s) == {s[i] : i \in 1..Len(s)}

----------------------------------------------------------------------------
(* parse_line: the classification of one logical line.  A line is given by *)
(* what the regular expressions find in it: its marker, its generation     *)
(* digit, the cleaned name and the years.  The spouse lines of the runs     *)
(* carry no generation digit and no year.                                  *)

NoEntry == [ok |-> FALSE]

LineShapes ==
    {l \in [marker : {"", "+"}, digit : Generations \cup {NONE},
            name : SeqSet(Names) \cup {JunkName}, birth_year : BirthYears,
            death_year : DeathYears] :
        l.marker = "+" => (l.digit = NONE /\ l.birth_year = NONE)}

\* a validation that lets every cleaned name through
is_valid_name_always(name) == TRUE

is_valid_name(name) == name # JunkName

\* extract_years, from the years its patterns have found: the range check and
\* the check that death is not before birth
extract_years(birth, death) ==
    LET birth_year == IF Truthy(birth) /\ (birth < 1650 \/ birth > 2025)
                      THEN NONE ELSE birth
        death_year == IF Truthy(death) /\ (death < 1650 \/ death > 2025)
                      THEN NONE ELSE death
    IN  [birth_year |-> birth_year,
         death_year |-> IF Truthy(birth_year) /\ Truthy(death_year)
                           /\ death_year < birth_year
                        THEN NONE ELSE death_year]

parse_line(line) ==
    LET is_spouse == line.marker = "+"
        generation == IF line.digit # NONE THEN line.digit
                      ELSE IF is_spouse THEN 0 ELSE NONE
        years == extract_years(line.birth_year, line.death_year)
    IN  IF generation = NONE THEN NoEntry
        ELSE IF ~is_valid_name(line.name) THEN NoEntry
        ELSE [ok |-> TRUE, generation |-> generation, is_spouse |-> is_spouse,
              name |-> line.name, birth_year |-> years.birth_year,
              death_year |-> years.death_year]

----------------------------------------------------------------------------
(* parse_ocr_pages *)

EmptyStack == [g \in {} |-> NoName]

\* gen_stack[generation] = name without the deletion of deeper generations
StackPutKeepDeeper(stack, generation, name) ==
    [g \in DOMAIN stack \cup {generation} |->
        IF g = generation THEN name ELSE stack[g]]

\* gen_stack[generation] = name, then every deeper generation is deleted
StackPut(stack, generation, name) ==
    [g \in {d \in DOMAIN stack : d <= generation} \cup {generation} |->
        IF g = generation THEN name ELSE stack[g]]

\* the parent context of an entry
ParentContext(stack, entry) ==
    IF entry.is_spouse THEN NoName
    ELSE IF entry.generation > 1 /\ (entry.generation - 1) \in DOMAIN stack
         THEN stack[entry.generation - 1]
         ELSE NoName

PageOf(n) == start_page + (n \div LinesPerPage)

NameIdx(n) == CHOOSE i \in 1..Len(Names) : Names[i] = n
UsedNames(es) == {es[i].name : i \in 1..Len(es)}
\* the next line may name a person already seen or the next unseen one
Nameable(es, n) ==
    IF n = JunkName THEN TRUE
    ELSE NameIdx(n) <= Cardinality(UsedNames(es)) + 1

\* one pass of "for line_num, line in enumerate(lines)", the line being any of
\* shapes and the pages holding max_lines lines in all
ParseFrom(shapes, max_lines) ==
    /\ pc = "parse"
    /\ line_no < max_lines
    /\ \E line \in shapes :
         /\ Nameable(entries, line.name)
         /\ LET entry == parse_line(line) IN
              IF ~entry.ok
              THEN UNCHANGED <<gen_stack, entries>>
              ELSE /\ gen_stack' = IF entry.is_spouse THEN gen_stack
                                   ELSE StackPut(gen_stack, entry.generation,
                                                 entry.name)
                   /\ entries' = Append(entries,
                         [generation |-> entry.generation,
                          is_spouse |-> entry.is_spouse,
                          name |-> entry.name,
                          birth_year |-> entry.birth_year,
                          death_year |-> entry.death_year,
                          parent_name |-> ParentContext(gen_stack, entry),
                          page_num |-> PageOf(line_no)])
    /\ line_no' = line_no + 1
    \* after the last line of the last page main() calls build_persons_dict
    \* with the entries, and export_to_json after it
    /\ pc' = IF line_no + 1 < max_lines THEN "parse"
             ELSE IF entries' = <<>> THEN "merge" ELSE "build"
    /\ UNCHANGED <<bi, persons, parents_set, current_person, dedupVars, toolVars>>

ParseLine == ParseFrom(LineShapes, MaxLines)

----------------------------------------------------------------------------
(* The persons dict: Person records in insertion order, each with its key. *)

NoKey == <<NoName, NONE>>

KeyOf(entry) == <<Lower(entry.name), entry.birth_year>>

HasKey(ps, k) == \E i \in 1..Len(ps) : ps[i].key = k
IndexOfKey(ps, k) == CHOOSE i \in 1..Len(ps) : ps[i].key = k

\* for k, p in persons.items(): if k[0] == lname: break   (0 when none)
FirstByName(ps, lname) ==
    LET hits == {i \in 1..Len(ps) : ps[i].key[1] = lname}
    IN  IF hits = {} THEN 0 ELSE CHOOSE i \in hits : \A j \in hits : i <= j

\* by_name[key[0]] = person, a later key replacing an earlier one   (0 when none)
LastByName(ps, lname) ==
    LET hits == {i \in 1..Len(ps) : ps[i].key[1] = lname}
    IN  IF hits = {} THEN 0 ELSE CHOOSE i \in hits : \A j \in hits : i >= j

NewPerson(entry) ==
    [key |-> KeyOf(entry), name |-> entry.name,
     birth_year |-> entry.birth_year, death_year |-> entry.death_year,
     generation |-> IF entry.is_spouse THEN NONE ELSE entry.generation,
     parents |-> <<>>, spouses |-> <<>>, children |-> <<>>]

----------------------------------------------------------------------------
(* build_persons_dict: one pass of its loop over entries *)

FillScalars(p, entry) ==
    LET p1 == IF Truthy(entry.death_year) /\ ~Truthy(p.death_year)
              THEN [p EXCEPT !.death_year = entry.death_year] ELSE p
    IN  IF Truthy(entry.generation) /\ ~Truthy(p1.generation)
        THEN [p1 EXCEPT !.generation = entry.generation] ELSE p1

\* if entry.is_spouse and current_person: the two spouse lists
LinkSpouse(ps, cur, key, entry) ==
    IF ~HasKey(ps, cur) THEN ps
    ELSE LET c == IndexOfKey(ps, cur)
             i == IndexOfKey(ps, key)
             ps1 == [ps EXCEPT ![c].spouses = AppendNew(@, entry.name)]
         IN  [ps1 EXCEPT ![i].spouses = AppendNew(@, ps1[c].name)]

\* the parent found by name: both directions of the edge
LinkParent(ps, key, entry) ==
    LET parent == FirstByName(ps, Lower(entry.parent_name))
        i == IndexOfKey(ps, key)
    IN  IF parent = 0 THEN ps
        ELSE LET ps1 == [ps EXCEPT ![parent].children = AppendNew(@, entry.name)]
             IN  [ps1 EXCEPT ![i].parents = AppendNew(@, ps1[parent].name)]

\* if parent_name: the test without the parents_set
AssignsParentEveryTime(pset, key, entry) == entry.parent_name # NoName

\* if parent_name and key not in parents_set
AssignsParent(pset, key, entry) == entry.parent_name # NoName /\ key \notin pset

BuildEntry(st, entry) ==
    LET key == KeyOf(entry)
        ps0 == IF HasKey(st.persons, key) THEN st.persons
               ELSE Append(st.persons, NewPerson(entry))
        i == IndexOfKey(ps0, key)
        ps1 == [ps0 EXCEPT ![i] = FillScalars(@, entry)]
    IN  IF entry.is_spouse /\ st.current_person # NoKey
        THEN [st EXCEPT !.persons = LinkSpouse(ps1, st.current_person, key, entry)]
        ELSE IF AssignsParent(st.parents_set, key, entry)
        THEN [persons |-> LinkParent(ps1, key, entry),
              parents_set |-> st.parents_set \cup {key},
              current_person |-> key]
        ELSE [persons |-> ps1, parents_set |-> st.parents_set,
              current_person |-> key]

RECURSIVE BuildFrom(_, _)
BuildFrom(st, es) ==
    IF es = <<>> THEN st ELSE BuildFrom(BuildEntry(st, Head(es)), Tail(es))

\* the dict build_persons_dict(entries) returns
build_persons_dict(es) ==
    BuildFrom([persons |-> <<>>, parents_set |-> {}, current_person |-> NoKey],
              es).persons

BuildStep ==
    /\ pc = "build"
    /\ bi < Len(entries)
    /\ LET st == BuildEntry([persons |-> persons, parents_set |-> parents_set,
                             current_person |-> current_person], entries[bi + 1])
       IN  /\ persons' = st.persons
           /\ parents_set' = st.parents_set
           /\ current_person' = st.current_person
    /\ bi' = bi + 1
    \* after the last entry main() calls export_to_json(persons)
    /\ pc' = IF bi + 1 = Len(entries) THEN "merge" ELSE "build"
    /\ UNCHANGED <<line_no, gen_stack, entries, dedupVars, toolVars>>

----------------------------------------------------------------------------
(* merge_duplicates *)

RECURSIVE UnionInto(_, _)
\* for x in other: if x not in base: base.append(x)
UnionInto(base, other) ==
    IF other = <<>> THEN base
    ELSE UnionInto(AppendNew(base, Head(other)), Tail(other))

RECURSIVE GroupNames(_, _)
\* the keys of by_name, in the order the names first occur in the dict
GroupNames(ps, seen) ==
    IF ps = <<>> THEN seen
    ELSE GroupNames(Tail(ps), AppendNew(seen, Head(ps).key[1]))

\* by_name[name]: the members of one group, in dict order
GroupOf(ps, lname) == SelectSeq(ps, LAMBDA p : p.key[1] = lname)

\* the base is the first member of the group, with or without a birth year
BaseIndexFirst(members) == 1

\* with_birth[0] if with_birth else without_birth[0]
BaseIndex(members) ==
    LET with_birth == {i \in 1..Len(members) : members[i].key[2] # NONE}
    IN  IF with_birth = {} THEN 1
        ELSE CHOOSE i \in with_birth : \A j \in with_birth : i <= j

MergeParents(base_parents, other_parents) ==
    IF base_parents = <<>> /\ other_parents # <<>> THEN other_parents
    ELSE base_parents

\* the base keeps its own spouses only
MergeSpousesBaseOnly(base_spouses, other_spouses) == base_spouses

MergeSpouses(base_spouses, other_spouses) == UnionInto(base_spouses, other_spouses)

MergeChildren(base_children, other_children) ==
    UnionInto(base_children, other_children)

\* one pass of "for key, other in entries" with key != base_key
MergeOther(base, other) ==
    [base EXCEPT
        !.death_year = IF ~Truthy(base.death_year) /\ Truthy(other.death_year)
                       THEN other.death_year ELSE @,
        !.generation = IF ~Truthy(base.generation) /\ Truthy(other.generation)
                       THEN other.generation ELSE @,
        !.parents = MergeParents(@, other.parents),
        !.spouses = MergeSpouses(@, other.spouses),
        !.children = MergeChildren(@, other.children)]

RECURSIVE MergeFold(_, _, _, _)
MergeFold(base, members, i, b) ==
    IF i > Len(members) THEN base
    ELSE MergeFold(IF i = b THEN base ELSE MergeOther(base, members[i]),
                   members, i + 1, b)

MergeGroup(members) ==
    IF Len(members) = 1 THEN members[1]
    ELSE LET b == BaseIndex(members)
         IN  MergeFold(members[b], members, 1, b)

merge_duplicates(ps) ==
    LET names == GroupNames(ps, <<>>)
    IN  [g \in 1..Len(names) |-> MergeGroup(GroupOf(ps, names[g]))]

----------------------------------------------------------------------------
(* share_children_between_spouses *)

RECURSIVE FirstMissing(_, _)
\* the first name of spouses that is not in parents   (<<>> when none)
FirstMissing(spouses, parents) ==
    IF spouses = <<>> THEN <<>>
    ELSE IF ~Contains(parents, Head(spouses)) THEN <<Head(spouses)>>
    ELSE FirstMissing(Tail(spouses), parents)

\* every name of spouses that is not in parents: the loop without its break
EveryMissing(spouses, parents) ==
    SelectSeq(spouses, LAMBDA n : ~Contains(parents, n))

\* for spouse_name in parent.spouses: ... break
SecondParents(spouses, parents) == FirstMissing(spouses, parents)

\* person.parents.append(spouse_name) alone
AddParentOnly(ps, i, spouse_name) ==
    [ps EXCEPT ![i].parents = Append(@, spouse_name)]

\* person.parents.append(spouse_name), and the spouse's children list
AddParent(ps, i, spouse_name) ==
    LET ps1 == [ps EXCEPT ![i].parents = Append(@, spouse_name)]
        sp == LastByName(ps, Lower(spouse_name))
    IN  IF sp = 0 THEN ps1
        ELSE [ps1 EXCEPT ![sp].children = AppendNew(@, ps1[i].name)]

RECURSIVE AddParents(_, _, _)
AddParents(ps, i, names) ==
    IF names = <<>> THEN ps
    ELSE AddParents(AddParent(ps, i, Head(names)), i, Tail(names))

\* one pass of "for key, person in persons.items()"
ShareOne(ps, i) ==
    IF Len(ps[i].parents) # 1 THEN ps
    ELSE LET parent == LastByName(ps, Lower(ps[i].parents[1]))
         IN  IF parent = 0 THEN ps
             ELSE AddParents(ps, i,
                             SecondParents(ps[parent].spouses, ps[i].parents))

RECURSIVE ShareFrom(_, _)
ShareFrom(ps, i) ==
    IF i > Len(ps) THEN ps ELSE ShareFrom(ShareOne(ps, i), i + 1)

share_children_between_spouses(ps) == ShareFrom(ps, 1)

----------------------------------------------------------------------------
(* export_to_json: its two passes over the dict *)

MergeDuplicates ==
    /\ pc = "merge"
    /\ persons' = merge_duplicates(persons)
    /\ pc' = "share"
    /\ UNCHANGED <<line_no, gen_stack, entries, bi, parents_set, current_person,
                   dedupVars, toolVars>>

ShareChildren ==
    /\ pc = "share"
    /\ persons' = share_children_between_spouses(persons)
    /\ pc' = "done"
    /\ UNCHANGED <<line_no, gen_stack, entries, bi, parents_set, current_person,
                   dedupVars, toolVars>>

----------------------------------------------------------------------------
\* main() of smart_parser.py has not started
ParserIdle ==
    /\ pc = "idle"
    /\ line_no = 0
    /\ gen_stack = EmptyStack
    /\ entries = <<>>
    /\ bi = 0
    /\ persons = <<>>
    /\ parents_set = {}
    /\ current_person = NoKey

\* no normalizer is under call
NormalizeIdle ==
    /\ normalizer = "none"
    /\ text = <<>>
    /\ passes = 0

\* preprocess_lines is not under call
PreprocessIdle ==
    /\ page_lines = <<>>
    /\ pp_i = 0
    /\ pp_processed = <<>>

\* qa_check.py is not run
QaIdle ==
    /\ qa_persons = <<>>
    /\ qa_i = 0
    /\ issues = <<>>

\* no create_marriage call is in flight
RequestsIdle == requests = <<>>

ToolIdle == NormalizeIdle /\ PreprocessIdle /\ QaIdle /\ RequestsIdle

\* the parser opens no database connection
DedupIdle ==
    /\ db_persons = <<>>
    /\ parent_child = {}
    /\ marriages = {}
    /\ person_aliases = <<>>
    /\ dry_run = TRUE
    /\ mode = "exact"
    /\ dpc = "idle"
    /\ duplicates = <<>>
    /\ processed = 0
    /\ scored = <<>>
    /\ canonical = <<>>
    /\ dups = <<>>
    /\ api_calls = 0
    /\ runs = 0

Init ==
    /\ pc = "parse"
    /\ line_no = 0
    /\ gen_stack = EmptyStack
    /\ entries = <<>>
    /\ bi = 0
    /\ persons = <<>>
    /\ parents_set = {}
    /\ current_person = NoKey
    /\ DedupIdle
    /\ ToolIdle

Next ==
    \/ ParseLine
    \/ BuildStep
    \/ MergeDuplicates
    \/ ShareChildren

Spec == Init /\ [][Next]_vars

----------------------------------------------------------------------------
(* The same pipeline on pages whose lines carry a generation digit from 0  *)
(* and birth and death dates.                                              *)

MaxDatedLines == 3

\* the digit that gen_match or gen_search captures with (\d)
Digits0 == {0, 1, 2}
\* the years the patterns of extract_years find in a line
FoundBirths == {NONE, 1800, 1900}
FoundDeaths == {NONE, 1850}

DatedLineShapes ==
    {l \in [marker : {"", "+"}, digit : Digits0 \cup {NONE},
            name : {Names[1], Names[2], JunkName}, birth_year : FoundBirths,
            death_year : FoundDeaths] :
        /\ l.marker = "+" => l.digit = NONE
        /\ (l.marker = "+" \/ l.digit = NONE \/ l.name = JunkName)
              => (l.birth_year = NONE /\ l.death_year = NONE)
        \* the lines of the first name carry the death dates
        /\ l.death_year # NONE => l.name = Names[1]}

ParseDatedLine == ParseFrom(DatedLineShapes, MaxDatedLines)

NextDated ==
    \/ ParseDatedLine
    \/ BuildStep
    \/ MergeDuplicates
    \/ ShareChildren

SpecDated == Init /\ [][NextDated]_vars

----------------------------------------------------------------------------
(* The database of backend/app, as deduplicate.py sees it *)

\* SQL NULL in a text column (NONE is NULL in an integer column)
NoText == "<null>"

\* SQL NULL in persons.notes; a note is modelled as its sequence of lines
NullNotes == <<NoText>>

\* if s: ... on an Optional[str]
TruthyText(s) == s # NoText /\ s # ""

\* if record.get('notes'): ...
TruthyNotes(n) == n # NullNotes /\ n # <<>>

\* ids of the persons rows (UUIDs in the database)
PersonIds == {1, 2, 3}

DisplayNames == {"John Smith", "john  smith", "Mary Roe"}

AliasNames == {"J. Smith"}

\* rows of the relationship tables an initial database holds
MaxRel == 2

\* the services a SpecScore behaviour calls
MaxCalls == 1

\* " ".join(name.lower().strip().split())
normalize_name(name) ==
    CASE name = "John Smith" -> "john smith"
      [] name = "john  smith" -> "john smith"
      [] name = "Mary Roe" -> "mary roe"
      [] OTHER -> ""

\* persons rows an imported database holds, by display name and birth year
PersonShapes == <<
    [display_name |-> "John Smith", birth_year |-> 1850, death_year |-> NONE,
     gender |-> NoText, tribal_affiliation |-> NoText, notes |-> NullNotes,
     generation |-> NONE],
    [display_name |-> "John Smith", birth_year |-> NONE, death_year |-> NONE,
     gender |-> NoText, tribal_affiliation |-> NoText, notes |-> NullNotes,
     generation |-> NONE],
    [display_name |-> "John Smith", birth_year |-> NONE, death_year |-> 1900,
     gender |-> "M", tribal_affiliation |-> "Lakota", notes |-> <<"n1">>,
     generation |-> 2],
    [display_name |-> "john  smith", birth_year |-> 1850, death_year |-> 1901,
     gender |-> NoText, tribal_affiliation |-> NoText, notes |-> <<"n2">>,
     generation |-> NONE],
    [display_name |-> "john  smith", birth_year |-> NONE, death_year |-> NONE,
     gender |-> NoText, tribal_affiliation |-> NoText, notes |-> NullNotes,
     generation |-> NONE],
    [display_name |-> "Mary Roe", birth_year |-> NONE, death_year |-> NONE,
     gender |-> NoText, tribal_affiliation |-> NoText, notes |-> NullNotes,
     generation |-> NONE],
    [display_name |-> "John Smith", birth_year |-> NONE, death_year |-> 1901,
     gender |-> NoText, tribal_affiliation |-> NoText, notes |-> <<"n2">>,
     generation |-> NONE] >>

\* the persons table is enumerated up to renaming of the ids
PersonTables ==
    {[i \in PersonIds |-> PersonShapes[idx[i]]] :
        idx \in {f \in [PersonIds -> 1..Len(PersonShapes)] :
                    \A i, j \in PersonIds : i < j => f[i] <= f[j]}}

Pairs == {pr \in PersonIds \X PersonIds : pr[1] # pr[2]}

\* unique_parent_child(parent_id, child_id)
ParentChildTables == {t \in SUBSET Pairs : Cardinality(t) <= MaxRel}

\* unique_marriage_pair(spouse1_id, spouse2_id); create_marriage and the
\* import refuse a pair that exists in either order
MarriageTables ==
    {t \in SUBSET Pairs : /\ Cardinality(t) <= MaxRel
                          /\ \A m \in t : <<m[2], m[1]>> \notin t}

NoAliases == [k \in PersonIds \X AliasNames |-> 0]

\* person_aliases has no unique constraint: person and name -> number of rows
AliasTables == [PersonIds \X AliasNames -> {0, 1}]

RECURSIVE SumOver(_, _)
SumOver(f, S) ==
    IF S = {} THEN 0
    ELSE LET k == CHOOSE x \in S : TRUE IN f[k] + SumOver(f, S \ {k})

AliasRows(al, id) == SumOver(al, {k \in DOMAIN al : k[1] = id})

AliasTotal(al) == SumOver(al, DOMAIN al)

\* SELECT id, display_name, ... FROM persons: one fetched row as a dict
FetchedRow(tbl, id) ==
    [id |-> id,
     display_name |-> tbl[id].display_name,
     birth_year |-> tbl[id].birth_year,
     death_year |-> tbl[id].death_year,
     gender |-> tbl[id].gender,
     tribal_affiliation |-> tbl[id].tribal_affiliation,
     notes |-> tbl[id].notes,
     generation |-> tbl[id].generation]

\* ORDER BY display_name under the database's collation: the C collation
\* and a dictionary collation are both in use
Collations == {<<"John Smith", "Mary Roe", "john  smith">>,
               <<"john  smith", "John Smith", "Mary Roe">>}

CollationRank(coll, name) == CHOOSE i \in 1..Len(coll) : coll[i] = name

\* ORDER BY birth_year: ascending, NULL last
BirthRank(b) == IF b = NONE THEN 10000 ELSE b

OrderedBefore(coll, r1, r2) ==
    IF r1.display_name # r2.display_name
    THEN CollationRank(coll, r1.display_name) < CollationRank(coll, r2.display_name)
    ELSE BirthRank(r1.birth_year) <= BirthRank(r2.birth_year)

\* the results conn.fetch may return for ORDER BY display_name, birth_year:
\* rows that compare equal come in any order
FetchOrders(tbl) ==
    LET ids == DOMAIN tbl
        n == Cardinality(ids)
        perms == {f \in [1..n -> ids] : \A i, j \in 1..n : i # j => f[i] # f[j]}
    IN  {[i \in 1..n |-> FetchedRow(tbl, f[i])] :
            f \in {g \in perms : \E coll \in Collations :
                     \A i, j \in 1..n : i < j =>
                        OrderedBefore(coll, tbl[g[i]], tbl[g[j]])}}

----------------------------------------------------------------------------
(* deduplicate.py: clustering and canonical selection *)

\* the distinct values of a list, in order of first occurrence (the key
\* order of a dict filled by one pass over the list)
FirstOccurrences(s) ==
    LET F[i \in 0..Len(s)] ==
            IF i = 0 THEN <<>> ELSE AppendNew(F[i - 1], s[i])
    IN  F[Len(s)]

ExactKey(r) == <<normalize_name(r.display_name), r.birth_year>>

FuzzyKey(r) == normalize_name(r.display_name)

ExactClusters(rows) ==
    LET keys == FirstOccurrences([i \in 1..Len(rows) |-> ExactKey(rows[i])])
    IN  [k \in 1..Len(keys) |->
            [key |-> keys[k],
             records |-> SelectSeq(rows, LAMBDA r : ExactKey(r) = keys[k])]]

FuzzyClusters(rows) ==
    LET names == FirstOccurrences([i \in 1..Len(rows) |-> FuzzyKey(rows[i])])
        by_name == [k \in 1..Len(names) |->
                      [key |-> <<names[k], NONE>>,
                       records |-> SelectSeq(rows,
                                      LAMBDA r : FuzzyKey(r) = names[k])]]
        has_birth(c) == SelectSeq(c.records, LAMBDA r : r.birth_year # NONE)
        no_birth(c) == SelectSeq(c.records, LAMBDA r : r.birth_year = NONE)
    IN  SelectSeq(by_name, LAMBDA c : has_birth(c) # <<>> /\ no_birth(c) # <<>>)

analyze_duplicates(rows, m) ==
    LET clusters == IF m = "exact" THEN ExactClusters(rows)
                    ELSE FuzzyClusters(rows)
    IN  SelectSeq(clusters, LAMBDA c : Len(c.records) > 1)

get_relationship_counts(pct, mt, al, person_id) ==
    LET parent_of == Cardinality({r \in pct : r[1] = person_id})
        child_of == Cardinality({r \in pct : r[2] = person_id})
        marriage_rows ==
            Cardinality({r \in mt : r[1] = person_id \/ r[2] = person_id})
        aliases == AliasRows(al, person_id)
    IN  [parent_of |-> parent_of, child_of |-> child_of,
         marriages |-> marriage_rows, aliases |-> aliases,
         total |-> parent_of + child_of + marriage_rows + aliases]

\* a slip of "=" for "+=" on the notes line
score_recordNotesAssign(record, rel_counts) ==
    LET s1 == IF Truthy(record.birth_year) THEN 100 ELSE 0
        s2 == s1 + IF Truthy(record.death_year) THEN 50 ELSE 0
        s3 == s2 + IF TruthyText(record.gender) THEN 20 ELSE 0
        s4 == s3 + IF TruthyText(record.tribal_affiliation) THEN 20 ELSE 0
        s5 == IF TruthyNotes(record.notes) THEN 10 ELSE s4
        s6 == s5 + IF Truthy(record.generation) THEN 10 ELSE 0
    IN  s6 + rel_counts.total * 5

score_record(record, rel_counts) ==
    LET s1 == IF Truthy(record.birth_year) THEN 100 ELSE 0
        s2 == s1 + IF Truthy(record.death_year) THEN 50 ELSE 0
        s3 == s2 + IF TruthyText(record.gender) THEN 20 ELSE 0
        s4 == s3 + IF TruthyText(record.tribal_affiliation) THEN 20 ELSE 0
        s5 == s4 + IF TruthyNotes(record.notes) THEN 10 ELSE 0
        s6 == s5 + IF Truthy(record.generation) THEN 10 ELSE 0
    IN  s6 + rel_counts.total * 5

\* the scored list select_canonical builds before it sorts
ScoredList(records, pct, mt, al) ==
    [i \in 1..Len(records) |->
        [score |-> score_record(records[i],
                      get_relationship_counts(pct, mt, al, records[i].id)),
         record |-> records[i]]]

\* sorting ascending and reversing the result: equal scores change places
SortReversed(sc) ==
    LET n == Len(sc)
        Pos(i) == Cardinality({j \in 1..n : sc[j].score > sc[i].score})
                  + Cardinality({j \in (i + 1)..n : sc[j].score = sc[i].score})
                  + 1
    IN  [k \in 1..n |-> sc[CHOOSE i \in 1..n : Pos(i) = k]]

\* reverse=True left out: ascending by score
SortAscending(sc) ==
    LET n == Len(sc)
        Pos(i) == Cardinality({j \in 1..n : sc[j].score < sc[i].score})
                  + Cardinality({j \in 1..(i - 1) : sc[j].score = sc[i].score})
                  + 1
    IN  [k \in 1..n |-> sc[CHOOSE i \in 1..n : Pos(i) = k]]

\* scored.sort(key=lambda x: x[0], reverse=True): descending by score, and
\* list.sort keeps elements of equal key in their original order
SortByScore(sc) ==
    LET n == Len(sc)
        Pos(i) == Cardinality({j \in 1..n : sc[j].score > sc[i].score})
                  + Cardinality({j \in 1..(i - 1) : sc[j].score = sc[i].score})
                  + 1
    IN  [k \in 1..n |-> sc[CHOOSE i \in 1..n : Pos(i) = k]]

\* the sorted list; canonical is its head's record, duplicates the rest
select_canonical(records, pct, mt, al) ==
    SortByScore(ScoredList(records, pct, mt, al))

----------------------------------------------------------------------------
(* deduplicate.py: merging one duplicate into the canonical record *)

\* UPDATE parent_child SET parent_id = canonical WHERE parent_id = duplicate
\* AND NOT EXISTS (the same child under canonical); DELETE the rest
MoveParentOf(pct, can, dup) ==
    LET mine == {r \in pct : r[1] = dup}
        moved == {r \in mine : <<can, r[2]>> \notin pct}
    IN  IF mine = {} THEN pct
        ELSE (pct \ mine) \cup {<<can, r[2]>> : r \in moved}

\* the rows under the duplicate are deleted, none is re-pointed
MoveChildOfDeleteOnly(pct, can, dup) == {r \in pct : r[2] # dup}

MoveChildOf(pct, can, dup) ==
    LET mine == {r \in pct : r[2] = dup}
        moved == {r \in mine : <<r[1], can>> \notin pct}
    IN  IF mine = {} THEN pct
        ELSE (pct \ mine) \cup {<<r[1], can>> : r \in moved}

\* NOT EXISTS (a marriage of canonical and the other spouse, either order)
Married(mt, a, b) == <<a, b>> \in mt \/ <<b, a>> \in mt

MoveSpouse1(mt, can, dup) ==
    LET mine == {r \in mt : r[1] = dup}
        moved == {r \in mine : ~Married(mt, can, r[2])}
    IN  IF mine = {} THEN mt
        ELSE (mt \ mine) \cup {<<can, r[2]>> : r \in moved}

MoveSpouse2(mt, can, dup) ==
    LET mine == {r \in mt : r[2] = dup}
        moved == {r \in mine : ~Married(mt, can, r[1])}
    IN  IF mine = {} THEN mt
        ELSE (mt \ mine) \cup {<<r[1], can>> : r \in moved}

\* the aliases stay with the duplicate
MoveAliasesNone(al, can, dup) == al

\* UPDATE person_aliases SET person_id = canonical WHERE person_id = duplicate
MoveAliases(al, can, dup) ==
    [k \in DOMAIN al |->
        IF k[1] = dup THEN 0
        ELSE IF k[1] = can THEN al[k] + al[<<dup, k[2]>>]
        ELSE al[k]]

\* merge_relationships with dry_run false, statement after statement
MergedRelationships(pct, mt, al, can, dup) ==
    [parent_child |-> MoveChildOf(MoveParentOf(pct, can, dup), can, dup),
     marriages |-> MoveSpouse2(MoveSpouse1(mt, can, dup), can, dup),
     person_aliases |-> MoveAliases(al, can, dup)]

\* duplicate['notes'] not in canonical['notes'], line by line
NotesWithin(part, whole) ==
    \E off \in 0..(Len(whole) - Len(part)) :
        \A i \in 1..Len(part) : whole[off + i] = part[i]

\* update_fields of merge_person_data as the row it leaves: canonical and
\* duplicate are the dicts fetched by analyze_duplicates
MergedRow(row, can, dup) ==
    [display_name |-> row.display_name,
     birth_year |-> IF ~Truthy(can.birth_year) /\ Truthy(dup.birth_year)
                    THEN dup.birth_year ELSE row.birth_year,
     death_year |-> IF ~Truthy(can.death_year) /\ Truthy(dup.death_year)
                    THEN dup.death_year ELSE row.death_year,
     gender |-> IF ~TruthyText(can.gender) /\ TruthyText(dup.gender)
                THEN dup.gender ELSE row.gender,
     tribal_affiliation |->
         IF ~TruthyText(can.tribal_affiliation)
            /\ TruthyText(dup.tribal_affiliation)
         THEN dup.tribal_affiliation ELSE row.tribal_affiliation,
     notes |-> IF TruthyNotes(dup.notes)
               THEN IF TruthyNotes(can.notes)
                    THEN IF ~NotesWithin(dup.notes, can.notes)
                         THEN can.notes \o <<"\n">> \o dup.notes ELSE row.notes
                    ELSE dup.notes
               ELSE row.notes,
     generation |-> IF ~Truthy(can.generation) /\ Truthy(dup.generation)
                    THEN dup.generation ELSE row.generation]

\* DELETE FROM persons WHERE id = ...: every foreign key is ON DELETE CASCADE
WithoutPerson(tbl, id) == [i \in DOMAIN tbl \ {id} |-> tbl[i]]

CascadePairs(t, id) == {r \in t : r[1] # id /\ r[2] # id}

CascadeAliases(al, id) == [k \in DOMAIN al |-> IF k[1] = id THEN 0 ELSE al[k]]

----------------------------------------------------------------------------
(* deduplicate.py: run_deduplication *)

\* --limit is not given
limit == NONE

\* where the loops of run_deduplication go after a duplicate is done
AfterDuplicate(rest) ==
    IF rest # <<>> THEN "merge_relationships"
    ELSE IF processed < Len(duplicates)
            /\ ~(Truthy(limit) /\ processed >= limit)
         THEN "select_canonical" ELSE "summary"

AnalyzeDuplicates ==
    /\ dpc = "analyze_duplicates"
    /\ \E rows \in FetchOrders(db_persons) :
          duplicates' = analyze_duplicates(rows, mode)
    /\ dpc' = IF duplicates' = <<>> THEN "summary" ELSE "select_canonical"
    /\ UNCHANGED <<parserVars, toolVars, runs, dbVars, dry_run, mode, processed, scored,
                   canonical, dups, api_calls>>

SelectCanonical ==
    /\ dpc = "select_canonical"
    /\ processed' = processed + 1
    /\ scored' = select_canonical(duplicates[processed + 1].records,
                                  parent_child, marriages, person_aliases)
    /\ canonical' = scored'[1].record
    /\ dups' = [k \in 1..(Len(scored') - 1) |-> scored'[k + 1].record]
    /\ dpc' = "merge_relationships"
    /\ UNCHANGED <<parserVars, toolVars, runs, dbVars, dry_run, mode, duplicates, api_calls>>

MergeRelationships ==
    /\ dpc = "merge_relationships"
    /\ LET merged == MergedRelationships(parent_child, marriages,
                        person_aliases, canonical.id, dups[1].id)
       IN  IF dry_run
           THEN UNCHANGED <<parent_child, marriages, person_aliases>>
           ELSE /\ parent_child' = merged.parent_child
                /\ marriages' = merged.marriages
                /\ person_aliases' = merged.person_aliases
    /\ dpc' = "merge_person_data"
    /\ UNCHANGED <<parserVars, toolVars, runs, db_persons, dry_run, mode, duplicates,
                   processed, scored, canonical, dups, api_calls>>

MergePersonData ==
    /\ dpc = "merge_person_data"
    /\ db_persons' =
         IF ~dry_run /\ canonical.id \in DOMAIN db_persons
         THEN [db_persons EXCEPT ![canonical.id] =
                  MergedRow(db_persons[canonical.id], canonical, dups[1])]
         ELSE db_persons
    /\ dpc' = "delete_duplicate"
    /\ UNCHANGED <<parserVars, toolVars, runs, parent_child, marriages, person_aliases,
                   dry_run, mode, duplicates, processed, scored, canonical,
                   dups, api_calls>>

\* a delete_duplicate that does not look at dry_run
DeletesAlways(flag) == TRUE

\* a delete_duplicate that leaves the row
DeletesNever(flag) == FALSE

\* delete_duplicate: if not dry_run
Deletes(flag) == ~flag

DeleteDuplicate ==
    /\ dpc = "delete_duplicate"
    /\ IF ~Deletes(dry_run)
       THEN UNCHANGED dbVars
       ELSE /\ db_persons' = WithoutPerson(db_persons, dups[1].id)
            /\ parent_child' = CascadePairs(parent_child, dups[1].id)
            /\ marriages' = CascadePairs(marriages, dups[1].id)
            /\ person_aliases' = CascadeAliases(person_aliases, dups[1].id)
    /\ dups' = Tail(dups)
    /\ dpc' = AfterDuplicate(Tail(dups))
    /\ UNCHANGED <<parserVars, toolVars, runs, dry_run, mode, duplicates, processed, scored,
                   canonical, api_calls>>

\* main(): dry_run=not args.execute, mode="fuzzy" if args.fuzzy else "exact"
InitDedup ==
    /\ ParserIdle
    /\ ToolIdle
    /\ db_persons \in PersonTables
    /\ parent_child \in ParentChildTables
    /\ marriages \in MarriageTables
    /\ person_aliases \in AliasTables
    /\ Cardinality(parent_child) + Cardinality(marriages)
         + AliasTotal(person_aliases) <= MaxRel
    /\ \E execute \in BOOLEAN, fuzzy \in BOOLEAN :
         /\ dry_run = ~execute
         /\ mode = IF fuzzy THEN "fuzzy" ELSE "exact"
    /\ dpc = "analyze_duplicates"
    /\ duplicates = <<>>
    /\ processed = 0
    /\ scored = <<>>
    /\ canonical = <<>>
    /\ dups = <<>>
    /\ api_calls = 0
    /\ runs = 1

\* deduplicate.py --execute is started once more, with the same arguments,
\* on the database its first run left
RunAgain ==
    /\ dpc = "summary"
    /\ ~dry_run
    /\ runs = 1
    /\ runs' = 2
    /\ dpc' = "analyze_duplicates"
    /\ duplicates' = <<>>
    /\ processed' = 0
    /\ scored' = <<>>
    /\ canonical' = <<>>
    /\ dups' = <<>>
    /\ UNCHANGED <<parserVars, toolVars, dbVars, dry_run, mode, api_calls>>

NextDedup ==
    \/ AnalyzeDuplicates
    \/ SelectCanonical
    \/ MergeRelationships
    \/ MergePersonData
    \/ DeleteDuplicate
    \/ RunAgain

SpecDedup == InitDedup /\ [][NextDedup]_vars

\* persons rows of one name with different birth years, and of another name
BirthShapes == <<
    [display_name |-> "John Smith", birth_year |-> 1850, death_year |-> NONE,
     gender |-> NoText, tribal_affiliation |-> NoText, notes |-> NullNotes,
     generation |-> NONE],
    [display_name |-> "John Smith", birth_year |-> 1860, death_year |-> NONE,
     gender |-> NoText, tribal_affiliation |-> NoText, notes |-> NullNotes,
     generation |-> NONE],
    [display_name |-> "John Smith", birth_year |-> NONE, death_year |-> NONE,
     gender |-> NoText, tribal_affiliation |-> NoText, notes |-> NullNotes,
     generation |-> NONE],
    [display_name |-> "Mary Roe", birth_year |-> NONE, death_year |-> NONE,
     gender |-> NoText, tribal_affiliation |-> NoText, notes |-> NullNotes,
     generation |-> NONE] >>

BirthTables ==
    {[i \in PersonIds |-> BirthShapes[idx[i]]] :
        idx \in {f \in [PersonIds -> 1..Len(BirthShapes)] :
                    \A i, j \in PersonIds : i < j => f[i] <= f[j]}}

\* deduplicate.py on a database whose same-named persons differ in birth year
InitBirths ==
    /\ ParserIdle
    /\ ToolIdle
    /\ db_persons \in BirthTables
    /\ parent_child \in ParentChildTables
    /\ marriages = {}
    /\ person_aliases = NoAliases
    /\ \E execute \in BOOLEAN, fuzzy \in BOOLEAN :
         /\ dry_run = ~execute
         /\ mode = IF fuzzy THEN "fuzzy" ELSE "exact"
    /\ dpc = "analyze_duplicates"
    /\ duplicates = <<>>
    /\ processed = 0
    /\ scored = <<>>
    /\ canonical = <<>>
    /\ dups = <<>>
    /\ api_calls = 0
    /\ runs = 1

SpecBirths == InitBirths /\ [][NextDedup]_vars

----------------------------------------------------------------------------
(* backend/app/services: the calls that add data to a person *)

\* values a PersonUpdate carries for a column that is NULL so far
BirthYearValues == {1850}
DeathYearValues == {1900}
GenderValues == {"M"}
TribalValues == {"Lakota"}
NotesValues == {<<"n1">>}
GenerationValues == {0, 2}

\* the rows update() can leave when it is given one column of a person
\* whose value is NULL
UpdatedRows(row) ==
    {[row EXCEPT !.birth_year = v] :
        v \in IF row.birth_year = NONE THEN BirthYearValues ELSE {}}
    \cup {[row EXCEPT !.death_year = v] :
        v \in IF row.death_year = NONE THEN DeathYearValues ELSE {}}
    \cup {[row EXCEPT !.gender = v] :
        v \in IF row.gender = NoText THEN GenderValues ELSE {}}
    \cup {[row EXCEPT !.tribal_affiliation = v] :
        v \in IF row.tribal_affiliation = NoText THEN TribalValues ELSE {}}
    \cup {[row EXCEPT !.notes = v] :
        v \in IF row.notes = NullNotes THEN NotesValues ELSE {}}
    \cup {[row EXCEPT !.generation = v] :
        v \in IF row.generation = NONE THEN GenerationValues ELSE {}}

\* PersonService.update
UpdatePerson ==
    /\ dpc = "api"
    /\ api_calls < MaxCalls
    /\ \E person_id \in DOMAIN db_persons :
         \E row \in UpdatedRows(db_persons[person_id]) :
            db_persons' = [db_persons EXCEPT ![person_id] = row]
    /\ api_calls' = api_calls + 1
    /\ UNCHANGED <<parserVars, toolVars, runs, parent_child, marriages, person_aliases,
                   runVars>>

\* PersonService.add_alias
AddAlias ==
    /\ dpc = "api"
    /\ api_calls < MaxCalls
    /\ \E person_id \in DOMAIN db_persons, alias_name \in AliasNames :
         person_aliases' =
            [person_aliases EXCEPT ![<<person_id, alias_name>>] = @ + 1]
    /\ api_calls' = api_calls + 1
    /\ UNCHANGED <<parserVars, toolVars, runs, db_persons, parent_child, marriages, runVars>>

\* RelationshipService.create_parent_child
CreateParentChild ==
    /\ dpc = "api"
    /\ api_calls < MaxCalls
    /\ \E parent_id \in DOMAIN db_persons, child_id \in DOMAIN db_persons :
         /\ parent_id # child_id
         /\ <<parent_id, child_id>> \notin parent_child
         /\ parent_child' = parent_child \cup {<<parent_id, child_id>>}
    /\ api_calls' = api_calls + 1
    /\ UNCHANGED <<parserVars, toolVars, runs, db_persons, marriages, person_aliases, runVars>>

\* RelationshipService.create_marriage
CreateMarriage ==
    /\ dpc = "api"
    /\ api_calls < MaxCalls
    /\ \E spouse1_id \in DOMAIN db_persons, spouse2_id \in DOMAIN db_persons :
         /\ spouse1_id # spouse2_id
         /\ ~Married(marriages, spouse1_id, spouse2_id)
         /\ marriages' = marriages \cup {<<spouse1_id, spouse2_id>>}
    /\ api_calls' = api_calls + 1
    /\ UNCHANGED <<parserVars, toolVars, runs, db_persons, parent_child, person_aliases,
                   runVars>>

\* deduplicate.py is started on the database as the services left it
StartDeduplication ==
    /\ dpc = "api"
    /\ dpc' = "analyze_duplicates"
    /\ runs' = runs + 1
    /\ UNCHANGED <<parserVars, toolVars, dbVars, dry_run, mode, duplicates, processed,
                   scored, canonical, dups, api_calls>>

InitScore ==
    /\ ParserIdle
    /\ ToolIdle
    /\ db_persons \in PersonTables
    /\ parent_child = {}
    /\ marriages = {}
    /\ person_aliases = NoAliases
    /\ dry_run = TRUE
    /\ mode \in {"exact", "fuzzy"}
    /\ dpc = "api"
    /\ duplicates = <<>>
    /\ processed = 0
    /\ scored = <<>>
    /\ canonical = <<>>
    /\ dups = <<>>
    /\ api_calls = 0
    /\ runs = 0

NextScore ==
    \/ UpdatePerson
    \/ AddAlias
    \/ CreateParentChild
    \/ CreateMarriage
    \/ StartDeduplication
    \/ AnalyzeDuplicates
    \/ SelectCanonical

SpecScore == InitScore /\ [][NextScore]_vars

----------------------------------------------------------------------------
(* RelationshipService.create_marriage under concurrent requests: every     *)
(* request runs in a session of its own, and the calls interleave at their *)
(* awaits.                                                                 *)

\* requests in flight at once
MaxRequests == 2

\* the MarriageCreate bodies; no persons row has the last id
MarriageCreates == [spouse1_id : PersonIds, spouse2_id : PersonIds]

\* the persons table of the runs: two rows
TwoPersons == [i \in {1, 2} |-> PersonShapes[i]]

InitMarry ==
    /\ ParserIdle
    /\ NormalizeIdle
    /\ PreprocessIdle
    /\ QaIdle
    /\ db_persons = TwoPersons
    /\ parent_child = {}
    /\ marriages = {}
    /\ person_aliases = NoAliases
    /\ dry_run = TRUE
    /\ mode = "exact"
    /\ dpc = "api"
    /\ duplicates = <<>>
    /\ processed = 0
    /\ scored = <<>>
    /\ canonical = <<>>
    /\ dups = <<>>
    /\ api_calls = 0
    /\ runs = 0
    /\ \E data \in [1..MaxRequests -> MarriageCreates] :
         requests = [r \in 1..MaxRequests |->
                        [data |-> data[r], at |-> "get_persons"]]

\* session.get(Person, ...) twice, and the two ValueErrors that follow
GetPersons ==
    \E r \in DOMAIN requests :
        /\ requests[r].at = "get_persons"
        /\ requests' = [requests EXCEPT ![r].at =
              IF \/ requests[r].data.spouse1_id \notin DOMAIN db_persons
                 \/ requests[r].data.spouse2_id \notin DOMAIN db_persons
              THEN "not_found"
              ELSE IF requests[r].data.spouse1_id = requests[r].data.spouse2_id
              THEN "same_person"
              ELSE "get_marriage"]
        /\ UNCHANGED <<parserVars, dedupVars, normalizeVars, preprocessVars,
                       qaVars>>

\* existing = await self.get_marriage(...): the committed rows, either order
GetMarriage ==
    \E r \in DOMAIN requests :
        /\ requests[r].at = "get_marriage"
        /\ requests' = [requests EXCEPT ![r].at =
              IF Married(marriages, requests[r].data.spouse1_id,
                         requests[r].data.spouse2_id)
              THEN "exists" ELSE "commit"]
        /\ UNCHANGED <<parserVars, dedupVars, normalizeVars, preprocessVars,
                       qaVars>>

\* session.add(marriage); await session.commit(): the INSERT, which
\* unique_marriage_pair(spouse1_id, spouse2_id) refuses for a row that is there
CommitMarriage ==
    \E r \in DOMAIN requests :
        /\ requests[r].at = "commit"
        /\ \E row \in {<<requests[r].data.spouse1_id,
                          requests[r].data.spouse2_id>>} :
              IF row \in marriages
              THEN /\ requests' = [requests EXCEPT ![r].at = "integrity_error"]
                   /\ UNCHANGED marriages
              ELSE /\ requests' = [requests EXCEPT ![r].at = "created"]
                   /\ marriages' = marriages \cup {row}
        /\ UNCHANGED <<parserVars, normalizeVars, preprocessVars, qaVars,
                       db_persons, parent_child, person_aliases, runVars,
                       api_calls, runs>>

NextMarry ==
    \/ GetPersons
    \/ GetMarriage
    \/ CommitMarriage

SpecMarry == InitMarry /\ [][NextMarry]_vars

----------------------------------------------------------------------------
(* scripts/clean_ocr_punctuation.py: clean_line, and                       *)
(* backend/scripts/parse_genealogy.py: normalize_text.                     *)
(* A string is the sequence of its characters.                             *)

\* the characters outside ASCII that the normalizers name
DAGGER == "U+2020"
DOUBLE_DAGGER == "U+2021"
BULLET == "U+2022"
MIDDLE_DOT == "U+00B7"
EM_DASH == "U+2014"
EN_DASH == "U+2013"

\* \s, \d and \w of the re module
Whitespace == {" ", "\t", "\n"}

Digits == {"0", "1", "2", "3", "4", "5", "6", "7", "8", "9"}

Letters == {"A", "D", "F", "I", "J", "M", "N", "O", "S", "a", "b", "c", "e",
            "g", "l", "n", "o", "p", "r", "t", "u", "v", "x", "y"}

WordChars == Letters \cup Digits \cup {"_"}

\* s[k], or no character beyond the ends of the string
At(s, k) == IF k >= 1 /\ k <= Len(s) THEN s[k] ELSE ""

\* \b in front of s[k]
Boundary(s, k) == (At(s, k - 1) \in WordChars) # (At(s, k) \in WordChars)

\* the characters of w stand at s[i], s[i+1], ...
Literal(s, i, w) ==
    /\ i + Len(w) - 1 <= Len(s)
    /\ \A j \in 1..Len(w) : s[i + j - 1] = w[j]

\* (?:Jan|Feb|Mar|Apr|May|Jun|Jul|Aug|Sep|Oct|Nov|Dec)
Months ==
    {<<"J", "a", "n">>, <<"F", "e", "b">>, <<"M", "a", "r">>,
     <<"A", "p", "r">>, <<"M", "a", "y">>, <<"J", "u", "n">>,
     <<"J", "u", "l">>, <<"A", "u", "g">>, <<"S", "e", "p">>,
     <<"O", "c", "t">>, <<"N", "o", "v">>, <<"D", "e", "c">>}

\* \b(?:Jan|...|Dec)\b matches at s[i]
MonthAt(s, i) ==
    /\ Boundary(s, i)
    /\ \E m \in Months : Literal(s, i, m)
    /\ Boundary(s, i + 3)

\* \s* from s[k]: the index it stops at
RECURSIVE SkipSpace(_, _)
SkipSpace(s, k) ==
    IF At(s, k) \in Whitespace THEN SkipSpace(s, k + 1) ELSE k

\* the number of digits from s[k] on
RECURSIVE DigitRun(_, _)
DigitRun(s, k) == IF At(s, k) \in Digits THEN 1 + DigitRun(s, k + 1) ELSE 0

\* \.? from s[k]: the index it stops at
SkipDot(s, k) == IF At(s, k) = "." THEN k + 1 ELSE k

\* (\b(?:Jan|...)\b\.?\s*\d{1,2}) at s[i], followed by something that is no
\* digit: the index after the group, 0 when it does not match
MonthDay(s, i) ==
    LET b == SkipSpace(s, SkipDot(s, i + 3))
        d == DigitRun(s, b)
    IN  IF MonthAt(s, i) /\ d \in {1, 2} THEN b + d ELSE 0

\* no match of a pattern at an index
NoMatch == [end |-> 0, by |-> <<>>]

\* the text line 53 of parse_genealogy.py replaces by an apostrophe: its
\* quotes are ASCII, so the literal runs from the first ''' to the second
QuoteLiteral ==
    <<",", " ", "\"", "'", "\"", ")", ".", "r", "e", "p", "l", "a", "c", "e",
      "(">>

\* one pattern of re.sub (or one old text of str.replace) tried at s[i]: the
\* index after the match and the text that replaces it
Match(rule, s, i) ==
    CASE rule = "day_year" ->
           LET g == MonthDay(s, i)
               e == SkipSpace(s, g)
               f == SkipSpace(s, e + 1)
           IN  IF g > 0 /\ At(s, e) = ";" /\ DigitRun(s, f) >= 4
               THEN [end |-> f + 4,
                     by |-> SubSeq(s, i, g - 1) \o <<",", " ">>
                              \o SubSeq(s, f, f + 3)]
               ELSE NoMatch
      [] rule = "month_year" ->
           LET a == SkipDot(s, i + 3)
               e == SkipSpace(s, a)
               f == SkipSpace(s, e + 1)
           IN  IF MonthAt(s, i) /\ At(s, e) = ";" /\ DigitRun(s, f) >= 4
               THEN [end |-> f + 4,
                     by |-> SubSeq(s, i, a - 1) \o <<" ">>
                              \o SubSeq(s, f, f + 3)]
               ELSE NoMatch
      [] rule = "day_end" ->
           LET g == MonthDay(s, i)
               e == SkipSpace(s, g)
           IN  IF g > 0 /\ At(s, e) = ";"
                  /\ SkipSpace(s, e + 1) = Len(s) + 1
               THEN [end |-> Len(s) + 1,
                     by |-> SubSeq(s, i, g - 1) \o <<",">>]
               ELSE NoMatch
      [] rule = "quotes" ->
           IF Literal(s, i, QuoteLiteral)
           THEN [end |-> i + Len(QuoteLiteral), by |-> <<"'">>]
           ELSE NoMatch
      [] rule = "ApI" ->
           IF Boundary(s, i) /\ Literal(s, i, <<"A", "p", "I">>)
              /\ Boundary(s, i + 3)
           THEN [end |-> i + 3, by |-> <<"A", "p", "r">>]
           ELSE NoMatch
      [] rule = "Aaug" ->
           IF Boundary(s, i) /\ Literal(s, i, <<"A", "a", "u", "g">>)
              /\ Boundary(s, i + 4)
           THEN [end |-> i + 4, by |-> <<"A", "u", "g">>]
           ELSE NoMatch
      [] rule = "JuI" ->
           IF Boundary(s, i) /\ Literal(s, i, <<"J", "u", "I">>)
              /\ Boundary(s, i + 3)
           THEN [end |-> i + 3, by |-> <<"J", "u", "l">>]
           ELSE NoMatch
      [] rule = "FebI" ->
           LET e == SkipSpace(s, i + 3)
           IN  IF Boundary(s, i) /\ Literal(s, i, <<"F", "e", "b">>)
                  /\ At(s, e) = "I" /\ Boundary(s, e + 1)
               THEN [end |-> e + 1, by |-> <<"F", "e", "b">>]
               ELSE NoMatch

\* re.sub(pattern, repl, s) and s.replace(old, new) from s[i] on: the
\* matches are taken from left to right and do not overlap
RECURSIVE Sub(_, _, _)
Sub(rule, s, i) ==
    IF i > Len(s) THEN <<>>
    ELSE LET m == Match(rule, s, i)
         IN  IF m.end > 0 THEN m.by \o Sub(rule, s, m.end)
             ELSE <<s[i]>> \o Sub(rule, s, i + 1)

\* the characters of a string
Range(s) == {s[k] : k \in 1..Len(s)}

\* s.replace(old, new) for one character
Replace(s, old, new) ==
    [k \in 1..Len(s) |-> IF s[k] = old THEN new ELSE s[k]]

\* [.\s\-,;:]
PrefixChars == {".", "-", ",", ";", ":"} \cup Whitespace

\* ^([.\s\-,;:]+) : the length of the group
RECURSIVE PrefixRun(_, _)
PrefixRun(s, k) ==
    IF At(s, k) \in PrefixChars THEN 1 + PrefixRun(s, k + 1) ELSE 0

\* lines 18-23 of clean_ocr_punctuation.py: the glyphs are replaced
ReplaceGlyphs(line) ==
    Replace(Replace(Replace(Replace(line, DAGGER, "+"), BULLET, "."),
                    EM_DASH, "-"), EN_DASH, "-")

\* lines 27-30: the three re.sub calls that repair a date
RepairDates(line) ==
    Sub("day_end", Sub("month_year", Sub("day_year", line, 1), 1), 1)

\* (.*)$ on the text after the marker: up to the end, or up to the newline
\* that ends the string
Rest(tail) ==
    IF tail # <<>> /\ tail[Len(tail)] = "\n"
    THEN SubSeq(tail, 1, Len(tail) - 1) ELSE tail

\* prefix.count('.') dots
Dots(prefix) == SelectSeq(prefix, LAMBDA c : c = ".")

\* lines 33-40: re.match(r'^([.\s\-,;:]+)([+*])(.*)$', line) and the line
\* built from its groups, with a prefix of p characters
StripPrefix(line, p) ==
    IF p >= 1 /\ At(line, p + 1) \in {"+", "*"}
       /\ "\n" \notin Range(Rest(SubSeq(line, p + 2, Len(line))))
    THEN Dots(SubSeq(line, 1, p)) \o <<line[p + 1]>>
           \o Rest(SubSeq(line, p + 2, Len(line)))
    ELSE line

CleanRepaired(line) == StripPrefix(line, PrefixRun(line, 1))

clean_line(line) == CleanRepaired(RepairDates(ReplaceGlyphs(line)))

normalize_text(t) ==
    LET t1 == Replace(Replace(t, BULLET, "."), MIDDLE_DOT, ".")
        t2 == Replace(Replace(t1, DAGGER, "+"), DOUBLE_DAGGER, "+")
        t3 == Replace(Replace(t2, EM_DASH, "-"), EN_DASH, "-")
        t4 == Sub("quotes", t3, 1)
        t5 == Replace(t4, "\"", "\"")
        t6 == Sub("ApI", t5, 1)
        t7 == Sub("Aaug", t6, 1)
        t8 == Sub("JuI", t7, 1)
    IN  Sub("FebI", t8, 1)

\* pieces of text the lines of a page are made of
Fragments ==
    {<<"J", "a", "n">>, <<"F", "e", "b">>, <<"A", "p", "I">>, <<"I">>,
     <<"x">>, <<" ">>, <<";">>, <<".">>, <<"2">>, <<"1", "9", "7", "8">>,
     <<DAGGER>>, <<EM_DASH>>, <<"\n">>}

\* fragments in a line
MaxParts == 4

RECURSIVE LinesOf(_)
LinesOf(n) ==
    IF n = 0 THEN {<<>>}
    ELSE LET shorter == LinesOf(n - 1)
         IN  shorter \cup {l \o f : l \in shorter, f \in Fragments}

\* a normalizer is called on a line, and then on what it returned
InitNormalize ==
    /\ ParserIdle
    /\ DedupIdle
    /\ PreprocessIdle
    /\ QaIdle
    /\ RequestsIdle
    /\ normalizer \in {"clean_line", "normalize_text"}
    /\ text \in LinesOf(MaxParts)
    /\ passes = 0

CleanLine ==
    /\ normalizer = "clean_line"
    /\ passes < 2
    /\ text' = clean_line(text)
    /\ passes' = passes + 1
    /\ UNCHANGED <<parserVars, dedupVars, normalizer, preprocessVars, qaVars,
                   requests>>

NormalizeText ==
    /\ normalizer = "normalize_text"
    /\ passes < 2
    /\ text' = normalize_text(text)
    /\ passes' = passes + 1
    /\ UNCHANGED <<parserVars, dedupVars, normalizer, preprocessVars, qaVars,
                   requests>>

NextNormalize ==
    \/ CleanLine
    \/ NormalizeText

SpecNormalize == InitNormalize /\ [][NextNormalize]_vars

----------------------------------------------------------------------------
(* backend/scripts/smart_parser.py: preprocess_lines.                      *)
(* A line is the sequence of its pieces: runs of characters that end in no *)
(* whitespace, and single whitespace characters.                           *)

\* the lines f.readlines() returns for a page
PageLineTexts ==
    {<<"6", "\n">>, <<"Al", "\n">>, <<"Al", " ", "\n">>,
     <<"Jan 30, 1940", "\n">>, <<"Bo May 20,", "\n">>, <<"1940", "\n">>,
     <<"1940 - Jan 1,", "\n">>, <<"\n">>}

\* lines of a page
MaxRawLines == 4

Pages == UNION {[1..n -> PageLineTexts] : n \in 0..MaxRawLines}

\* str.rstrip()
RECURSIVE rstrip(_)
rstrip(l) ==
    IF l # <<>> /\ l[Len(l)] \in Whitespace
    THEN rstrip(SubSeq(l, 1, Len(l) - 1)) ELSE l

\* the patterns of preprocess_lines on a stripped line
Matches(pattern, l) ==
    CASE pattern = "just_gen" -> l = <<"6">>
      [] pattern = "date_only_pattern" ->
           l \in {<<"Jan 30, 1940">>, <<"1940">>}
      [] pattern = "partial_date_ending" ->
           l \in {<<"Bo May 20,">>, <<"1940 - Jan 1,">>}
      [] pattern = "date_fragment_pattern" ->
           l \in {<<"1940">>, <<"1940 - Jan 1,">>}

\* the inner while loops: the last of the lines from lines[j] on that match
\* the pattern one after the other (j - 1 when lines[j] does not)
RECURSIVE RunEnd(_, _, _)
RunEnd(lines, j, pattern) ==
    IF j <= Len(lines) /\ Matches(pattern, rstrip(lines[j]))
    THEN RunEnd(lines, j + 1, pattern) ELSE j - 1

\* only the first line is kept
JoinedFirstOnly(lines, a, b) == rstrip(lines[a])

\* combined: line + ' ' + next_line + ' ' + ... for lines[a] to lines[b]
RECURSIVE Joined(_, _, _)
Joined(lines, a, b) ==
    IF a = b THEN rstrip(lines[a])
    ELSE Joined(lines, a, b - 1) \o <<" ">> \o rstrip(lines[b])

\* the last line that one pass of the outer loop, at lines[k], consumes
LastJoined(lines, k) ==
    IF Matches("just_gen", rstrip(lines[k])) /\ k < Len(lines)
    THEN RunEnd(lines, k + 2, "date_only_pattern")
    ELSE IF k < Len(lines)
            /\ Matches("partial_date_ending", rstrip(lines[k]))
            /\ RunEnd(lines, k + 1, "date_fragment_pattern") > k
         THEN RunEnd(lines, k + 1, "date_fragment_pattern")
         ELSE IF k < Len(lines)
                 /\ Matches("date_only_pattern", rstrip(lines[k + 1]))
              THEN k + 1
              ELSE k

InitPreprocess ==
    /\ ParserIdle
    /\ DedupIdle
    /\ NormalizeIdle
    /\ QaIdle
    /\ RequestsIdle
    /\ page_lines \in Pages
    /\ pp_i = 0
    /\ pp_processed = <<>>

\* one pass of while i < len(lines)
PreprocessStep ==
    /\ pp_i < Len(page_lines)
    /\ pp_i' = LastJoined(page_lines, pp_i + 1)
    /\ pp_processed' = Append(pp_processed, Joined(page_lines, pp_i + 1, pp_i'))
    /\ UNCHANGED <<parserVars, dedupVars, normalizeVars, page_lines, qaVars,
                   requests>>

NextPreprocess == PreprocessStep

\* the loop runs on while it can
SpecPreprocess ==
    InitPreprocess /\ [][NextPreprocess]_vars /\ WF_vars(PreprocessStep)

----------------------------------------------------------------------------
(* backend/scripts/qa_check.py: check_impossible_dates *)

\* birth_year and death_year of an exported record: None or an int
YearValues == {NONE, 0, 1500, 1600, 1950, 2024, 2100}

\* records in the file qa_check.py loads
MaxRecords == 2

\* the k-th record of the file is the one of Names[k]
RecordLists ==
    UNION {[1..n -> [birth_year : YearValues, death_year : YearValues]] :
              n \in 0..MaxRecords}

\* one dict appended to issues; detail holds what the f-string formats
Issue(type, severity, name, birth, detail) ==
    [type |-> type, severity |-> severity, name |-> name,
     birth_year |-> birth, detail |-> detail]

\* lines 78-94
BirthIssues(name, birth) ==
    IF Truthy(birth) /\ birth < 1600
    THEN <<Issue("BIRTH_TOO_EARLY", "HIGH", name, birth, <<birth>>)>>
    ELSE IF Truthy(birth) /\ birth > 2024
         THEN <<Issue("BIRTH_IN_FUTURE", "HIGH", name, birth, <<birth>>)>>
         ELSE <<>>

\* lines 97-113
DeathIssues(name, birth, death) ==
    IF Truthy(death) /\ death < 1600
    THEN <<Issue("DEATH_TOO_EARLY", "HIGH", name, birth, <<death>>)>>
    ELSE IF Truthy(death) /\ death > 2024
         THEN <<Issue("DEATH_IN_FUTURE", "HIGH", name, birth, <<death>>)>>
         ELSE <<>>

\* a death in the year of birth is reported as well
DeathNotAfterBirth(birth, death) ==
    Truthy(birth) /\ Truthy(death) /\ death <= birth

\* line 116: if birth and death and death < birth
DeathBeforeBirth(birth, death) ==
    Truthy(birth) /\ Truthy(death) /\ death < birth

\* lines 116-133
SpanIssues(name, birth, death) ==
    (IF DeathBeforeBirth(birth, death)
     THEN <<Issue("DEATH_BEFORE_BIRTH", "HIGH", name, birth,
                  <<death, birth>>)>>
     ELSE <<>>)
    \o (IF Truthy(birth) /\ Truthy(death) /\ death - birth > 120
        THEN <<Issue("UNREALISTIC_LIFESPAN", "MEDIUM", name, birth,
                     <<death - birth, birth, death>>)>>
        ELSE <<>>)

InitQa ==
    /\ ParserIdle
    /\ DedupIdle
    /\ NormalizeIdle
    /\ PreprocessIdle
    /\ RequestsIdle
    /\ qa_persons \in RecordLists
    /\ qa_i = 0
    /\ issues = <<>>

\* one pass of for p in persons
CheckImpossibleDates ==
    /\ qa_i < Len(qa_persons)
    /\ \E p \in {qa_persons[qa_i + 1]} :
          issues' = issues
                      \o BirthIssues(Names[qa_i + 1], p.birth_year)
                      \o DeathIssues(Names[qa_i + 1], p.birth_year,
                                     p.death_year)
                      \o SpanIssues(Names[qa_i + 1], p.birth_year,
                                    p.death_year)
    /\ qa_i' = qa_i + 1
    /\ UNCHANGED <<parserVars, dedupVars, normalizeVars, preprocessVars,
                   qa_persons, requests>>

NextQa == CheckImpossibleDates

SpecQa == InitQa /\ [][NextQa]_vars

----------------------------------------------------------------------------
(* Properties of the pipeline, checked under Spec *)

Regular(es) == SelectSeq(es, LAMBDA e : ~e.is_spouse)
\* the one record of a name in the merged dict
Record(ps, name) == ps[LastByName(ps, Lower(name))]

\* C1: every person has at most two parents, after every step of
\* build_persons_dict, after merge_duplicates and after
\* share_children_between_spouses.
C1_MaxTwoParents == \A i \in 1..Len(persons) : Len(persons[i].parents) <= 2

\* a run whose sharing pass has given some person a second parent
C1_Witness ==
    /\ pc = "done"
    /\ \E i \in 1..Len(persons) : Len(persons[i].parents) = 2

\* the first of the first n entries that has key k and a parent context
FirstResolvable(k, n) ==
    LET occ == {i \in 1..n : KeyOf(entries[i]) = k
                              /\ entries[i].parent_name # NoName}
    IN  IF occ = {} THEN 0 ELSE CHOOSE i \in occ : \A j \in occ : i <= j

\* C2: first-appearance-wins per key.  While build_persons_dict runs, the
\* parents of a key are exactly the parent context of the first entry of that
\* key that had one, and every child edge comes from such a first entry: a
\* later entry of the key adds neither a parent edge nor a child edge.
C2_FirstAppearanceWins ==
    pc \in {"build", "merge"} =>
        \A i \in 1..Len(persons) :
            LET f == FirstResolvable(persons[i].key, bi) IN
            /\ persons[i].parents =
                   IF f = 0 THEN <<>> ELSE <<entries[f].parent_name>>
            /\ \A c \in 1..Len(persons[i].children) :
                   \E j \in 1..bi :
                       /\ j = FirstResolvable(KeyOf(entries[j]), bi)
                       /\ entries[j].name = persons[i].children[c]
                       /\ FirstByName(persons, Lower(entries[j].parent_name)) = i

\* a key has been seen twice, under two different parent contexts
C2_Witness ==
    /\ pc \in {"build", "merge"}
    /\ \E i, j \in 1..bi :
         /\ i < j
         /\ KeyOf(entries[i]) = KeyOf(entries[j])
         /\ entries[i].parent_name # NoName
         /\ entries[j].parent_name # NoName
         /\ entries[i].parent_name # entries[j].parent_name

\* C3: Scenario B end to end.  A name that first appears under P1 and appears
\* again later under another person P2 (P1, P2 and the child being three
\* different names) is exported with P1 among its parents and with a
\* directly assigned (first) parent other than P2.
C3_ScenarioB ==
    pc = "done" =>
        \A i, j \in 1..Len(entries) :
            ( /\ i < j
              /\ ~entries[i].is_spouse /\ ~entries[j].is_spouse
              /\ Lower(entries[i].name) = Lower(entries[j].name)
              /\ \A k \in 1..(i - 1) :
                    Lower(entries[k].name) # Lower(entries[i].name)
              /\ entries[i].parent_name # NoName
              /\ entries[j].parent_name # NoName
              /\ entries[j].parent_name # entries[i].parent_name
              /\ entries[i].name \notin {entries[i].parent_name,
                                          entries[j].parent_name} )
            => LET r == Record(persons, entries[i].name) IN
               /\ Contains(r.parents, entries[i].parent_name)
               /\ Head(r.parents) # entries[j].parent_name

\* no entry stands under a person of its own name
NoSelfContext == \A i \in 1..Len(entries) : entries[i].parent_name # entries[i].name

\* C4: in the exported records spouse and parent-child edges are symmetric
\* by name (stated for the runs in which no entry stands under its own name).
C4_SymmetricEdges ==
    (pc = "done" /\ NoSelfContext) =>
        \A i \in 1..Len(persons) :
            LET a == persons[i] IN
            /\ \A b \in SeqSet(a.spouses) :
                   Contains(Record(persons, b).spouses, a.name)
            /\ \A b \in SeqSet(a.parents) :
                   Contains(Record(persons, b).children, a.name)
            /\ \A b \in SeqSet(a.children) :
                   Contains(Record(persons, b).parents, a.name)

EdgeNames(p) == SeqSet(p.parents) \cup SeqSet(p.spouses) \cup SeqSet(p.children)

\* C5 as stated: merge_duplicates never drops an edge.  The names in the
\* surviving record's three lists include every name in the lists of every
\* member of its group (stated for the runs in which no entry stands under
\* its own name).
C5_NeverDropsAnEdge ==
    [][(pc = "merge" /\ NoSelfContext) =>
        \A i \in 1..Len(persons) :
            EdgeNames(persons[i]) \subseteq
                EdgeNames(Record(persons', persons[i].name))]_vars

\* the members of the group of persons[i] that the merge loop visits before it
EarlierOthers(ps, i) ==
    LET lname == ps[i].key[1]
        b == IndexOfKey(ps, GroupOf(ps, lname)[BaseIndex(GroupOf(ps, lname))].key)
    IN  {j \in 1..(i - 1) : ps[j].key[1] = lname /\ j # b}

\* C5 as amended: merge_duplicates never drops a spouse or a child edge, and
\* the surviving record keeps the parents of the base, or, when the base has
\* none, those of the first other member that has any.
C5_KeepsSpousesAndChildren ==
    [][pc = "merge" =>
        \A i \in 1..Len(persons) :
            LET r == Record(persons', persons[i].name)
                members == GroupOf(persons, persons[i].key[1])
                base == members[BaseIndex(members)]
            IN  /\ SeqSet(persons[i].spouses) \subseteq SeqSet(r.spouses)
                /\ SeqSet(persons[i].children) \subseteq SeqSet(r.children)
                /\ r.key = base.key
                /\ base.parents # <<>> => r.parents = base.parents
                /\ ( /\ base.parents = <<>>
                     /\ persons[i].parents # <<>>
                     /\ \A j \in EarlierOthers(persons, i) :
                           persons[j].parents = <<>> )
                   => r.parents = persons[i].parents]_vars

\* a merge has folded a record with a spouse of its own into a base that did
\* not list that spouse
C5_Witness ==
    /\ pc = "share"
    /\ LET pre == build_persons_dict(entries) IN
       \E i \in 1..Len(pre) :
           /\ Record(persons, pre[i].name).key # pre[i].key
           /\ \E n \in SeqSet(pre[i].spouses) :
                 ~Contains(pre[IndexOfKey(pre, Record(persons, pre[i].name).key)].spouses, n)

\* C6: the generation stack holds no depth greater than the generation of
\* the most recently accepted non-spouse entry (and nothing before the first
\* such entry); spouse entries and rejected lines leave it unchanged.
C6_GenerationStack ==
    /\ [](LET regs == Regular(entries) IN
            IF regs = <<>> THEN gen_stack = EmptyStack
            ELSE /\ \A d \in DOMAIN gen_stack : d <= regs[Len(regs)].generation
                 /\ gen_stack[regs[Len(regs)].generation] = regs[Len(regs)].name)
    /\ [][(entries' = entries \/ entries'[Len(entries')].is_spouse)
            => gen_stack' = gen_stack]_vars

\* a shallower entry has cleared a deeper one, and a spouse line and a
\* rejected line have followed it
C6_Witness ==
    /\ Len(entries) >= 3
    /\ line_no > Len(entries)
    /\ entries[Len(entries)].is_spouse
    /\ DOMAIN gen_stack = {1}
    /\ \E i \in 1..Len(entries) : entries[i].generation = 2

\* the nearest non-spouse entry among the first n entries   (0 when none)
LastRegular(es, n) ==
    LET regular == {k \in 1..n : ~es[k].is_spouse}
    IN  IF regular = {} THEN 0
        ELSE CHOOSE k \in regular : \A j \in regular : j <= k

\* C20: every spouse entry is linked as a spouse, in both directions, to
\* the nearest preceding non-spouse entry (so consecutive spouse entries all
\* attach to the same person); a spouse entry receives no parent edge and
\* does not become the person later spouse entries attach to.
C20_SpouseAttachment ==
    [][(pc = "build" /\ bi' = bi + 1 /\ entries[bi + 1].is_spouse) =>
        \E e \in {entries[bi + 1]}, prev \in {LastRegular(entries, bi)} :
            /\ prev > 0 =>
                 \E c \in {IndexOfKey(persons', KeyOf(entries[prev]))},
                    i \in {IndexOfKey(persons', KeyOf(e))} :
                     /\ Contains(persons'[c].spouses, e.name)
                     /\ Contains(persons'[i].spouses, persons'[c].name)
            /\ \A k \in 1..Len(persons') :
                 /\ persons'[k].parents
                      = IF k <= Len(persons) THEN persons[k].parents ELSE <<>>
                 /\ persons'[k].children
                      = IF k <= Len(persons) THEN persons[k].children ELSE <<>>
            /\ current_person' = current_person
    ]_vars

\* the spouses of the one parent of persons[i], in that parent's list order
SpousesOfParent(ps, i) == Record(ps, ps[i].parents[1]).spouses

\* the persons whose one parent has a spouse that is not among their parents
Sharers(ps) ==
    {i \in 1..Len(ps) :
        /\ Len(ps[i].parents) = 1
        /\ \E q \in 1..Len(SpousesOfParent(ps, i)) :
               ~Contains(ps[i].parents, SpousesOfParent(ps, i)[q])}

\* the first spouse of the parent of persons[i] that is not among its parents
NewParent(ps, i) ==
    LET sps == SpousesOfParent(ps, i)
        q == CHOOSE q \in 1..Len(sps) :
                 /\ ~Contains(ps[i].parents, sps[q])
                 /\ \A r \in 1..(q - 1) : Contains(ps[i].parents, sps[r])
    IN  sps[q]

C25_RejectedLineDropped ==
    /\ [](\A i \in 1..Len(entries) :
             entries[i].name # JunkName /\ entries[i].generation # NONE)
    /\ [](pc = "parse" <=> line_no < MaxLines)
    /\ [][(line_no' = line_no + 1 /\ Len(entries') = Len(entries)) =>
            /\ entries' = entries
            /\ gen_stack' = gen_stack
            /\ persons' = persons
            /\ line_no' < MaxLines => pc' = "parse"]_vars

\* every line of the first page has been rejected and a line of a later
\* page has given the first entry
C25_Witness ==
    /\ entries # <<>>
    /\ entries[1].page_num > start_page

\* C26: no exported person is its own parent, child or spouse.  After
\* build_persons_dict, merge_duplicates and share_children_between_spouses
\* no record's parents, spouses or children list holds the record's own name.
C26_NoSelfReference ==
    pc = "done" =>
        \A i \in 1..Len(persons) :
            /\ ~Contains(persons[i].parents, persons[i].name)
            /\ ~Contains(persons[i].spouses, persons[i].name)
            /\ ~Contains(persons[i].children, persons[i].name)

----------------------------------------------------------------------------
(* Properties of the pipeline on dated lines, checked under SpecDated *)

\* C21: every accepted non-spouse entry at depth g takes the name the stack
\* holds at depth g - 1 as its parent context whenever the stack holds that
\* depth (for every g, g = 1 included); stack[g] then becomes the entry's
\* name and every deeper depth leaves the stack.
C21_ParentContext ==
    [][(Len(entries') = Len(entries) + 1 /\ ~entries'[Len(entries')].is_spouse) =>
        \E e \in {entries'[Len(entries')]} :
            /\ (e.generation - 1) \in DOMAIN gen_stack
                  => e.parent_name = gen_stack[e.generation - 1]
            /\ DOMAIN gen_stack'
                  = {d \in DOMAIN gen_stack : d < e.generation} \cup {e.generation}
            /\ gen_stack'[e.generation] = e.name
            /\ \A d \in DOMAIN gen_stack' \ {e.generation} :
                  gen_stack'[d] = gen_stack[d]
    ]_vars

\* the first of the records of lname in ps that has a birth year, or the
\* first of them when none has one
FirstWithBirth(ps, lname) ==
    LET members == {i \in 1..Len(ps) : ps[i].key[1] = lname}
        with_birth == {i \in members : ps[i].key[2] # NONE}
        pick == IF with_birth # {} THEN with_birth ELSE members
    IN  CHOOSE i \in pick : \A j \in pick : i <= j

\* C22: after merge_duplicates the dict holds exactly one record per
\* lowercased name; it has the key of the first member of the name's group
\* that has a birth year, or of the first member when none has one, and no
\* other member of the group remains.
C22_OneRecordPerName ==
    [][pc = "merge" =>
        /\ \A i \in 1..Len(persons) :
              \E lname \in {persons[i].key[1]} :
                  \E j \in 1..Len(persons') :
                      /\ persons'[j].key = persons[FirstWithBirth(persons, lname)].key
                      /\ \A k \in 1..Len(persons') :
                            persons'[k].key[1] = lname => k = j
        /\ \A j \in 1..Len(persons') : HasKey(persons, persons'[j].key)
    ]_vars

\* merge_duplicates has merged a group of three whose first member has no
\* birth year and whose other two have different ones
C22_Witness ==
    /\ pc = "share"
    /\ \E pre \in {build_persons_dict(entries)} :
         \E lname \in {pre[i].key[1] : i \in 1..Len(pre)} :
             /\ Cardinality({i \in 1..Len(pre) : pre[i].key[1] = lname}) = 3
             /\ pre[FirstByName(pre, lname)].key[2] = NONE
             /\ HasKey(persons, pre[FirstWithBirth(pre, lname)].key)

\* C24: first-non-null-wins for the scalar fields.  Once the death_year or
\* the generation of a person in the dict is not None, no later entry of
\* build_persons_dict and no step of merge_duplicates changes it: a value is
\* only ever written into a field that is still None.
C24_FirstNonNullWins ==
    [][(pc \in {"build", "merge"}) =>
        \A i \in 1..Len(persons) :
            HasKey(persons', persons[i].key) =>
                \E r \in {persons'[IndexOfKey(persons', persons[i].key)]} :
                    /\ persons[i].death_year # NONE
                          => r.death_year = persons[i].death_year
                    /\ persons[i].generation # NONE
                          => r.generation = persons[i].generation
    ]_vars

\* C27: every record that has both a birth year and a death year has
\* death_year >= birth_year.  No entry leaves extract_years with a death year
\* before its birth year, and no step of build_persons_dict or of
\* merge_duplicates gives a person one.
C27_DeathNotBeforeBirth ==
    /\ \A i \in 1..Len(entries) :
          (entries[i].birth_year # NONE /\ entries[i].death_year # NONE)
              => entries[i].death_year >= entries[i].birth_year
    /\ \A i \in 1..Len(persons) :
          (persons[i].birth_year # NONE /\ persons[i].death_year # NONE)
              => persons[i].death_year >= persons[i].birth_year

----------------------------------------------------------------------------
(* Properties of the storage-side merge, checked under SpecDedup *)

Committed == dpc \notin {"idle", "analyze_duplicates"} /\ ~dry_run

\* what select_canonical computes for a fetched record on the current tables
ScoreNow(r) ==
    score_record(r, get_relationship_counts(parent_child, marriages,
                                            person_aliases, r.id))

RowsNow(id) ==
    get_relationship_counts(parent_child, marriages, person_aliases, id).total

\* C7: with dry_run true no step of run_deduplication (analysis, canonical
\* selection, merge_relationships, merge_person_data, delete_duplicate)
\* changes the tables persons, parent_child, marriages or person_aliases,
\* in either clustering mode.
C7_DryRunLeavesTables == [][dry_run => UNCHANGED dbVars]_vars

\* a dry run has gone through a whole cluster whose duplicate has
\* relationship rows and data the canonical record lacks
C7_Witness ==
    /\ dry_run
    /\ dpc = "summary"
    /\ Len(scored) >= 2
    /\ RowsNow(scored[2].record.id) > 0
    /\ TruthyText(scored[2].record.gender)
    /\ ~TruthyText(canonical.gender)

\* two persisted records as Scenario D gives them: the same normalized
\* name, a with a birth year and relationship rows, b with neither
ScenarioPair(a, b) ==
    /\ a \in DOMAIN db_persons /\ b \in DOMAIN db_persons /\ a # b
    /\ normalize_name(db_persons[a].display_name)
         = normalize_name(db_persons[b].display_name)
    /\ db_persons[a].birth_year # NONE /\ RowsNow(a) > 0
    /\ db_persons[b].birth_year = NONE /\ RowsNow(b) = 0

InOneCluster(a, b) ==
    \E k \in 1..Len(duplicates) :
        /\ \E i \in 1..Len(duplicates[k].records) :
               duplicates[k].records[i].id = a
        /\ \E i \in 1..Len(duplicates[k].records) :
               duplicates[k].records[i].id = b

\* while a Scenario D pair is in the database, the run has both records in
\* one cluster and is not over
PairIsMerged ==
    \A a, b \in PersonIds :
        ScenarioPair(a, b) =>
            /\ dpc # "summary"
            /\ processed = 0 => InOneCluster(a, b)

\* C8 as claimed: a committed exact-mode run puts the two records of
\* Scenario D in one cluster and removes one of them, so no such pair is
\* left when the run ends.
C8_ScenarioD == (Committed /\ mode = "exact") => PairIsMerged

\* the canonical record select_canonical returns has the highest score of
\* its cluster
SelectsHighest ==
    (dpc = "select_canonical" /\ dpc' = "merge_relationships") =>
        \A i \in 1..Len(duplicates[processed'].records) :
            ScoreNow(duplicates[processed'].records[i]) <= ScoreNow(canonical')

\* delete_duplicate removes the duplicate and keeps the canonical record
DeletesOther ==
    (dpc = "delete_duplicate" /\ ~dry_run) =>
        /\ dups[1].id # canonical.id
        /\ DOMAIN db_persons' = DOMAIN db_persons \ {dups[1].id}
        /\ canonical.id \in DOMAIN db_persons'

\* C8 as amended: a committed fuzzy-mode run (no --limit) puts the two
\* records of Scenario D in one cluster, keeps a record of the highest score
\* of that cluster as canonical and deletes every other record of it, so no
\* such pair is left when the run ends.
C8_ScenarioDFuzzy ==
    /\ []((Committed /\ mode = "fuzzy") => PairIsMerged)
    /\ [][mode = "fuzzy" => (SelectsHighest /\ DeletesOther)]_vars

\* Scenario D has run: the record with a birth year and rows was kept, the
\* record with neither scored 0 and is gone
C8_Witness ==
    /\ ~dry_run /\ mode = "fuzzy" /\ dpc = "summary"
    /\ Len(scored) = 2
    /\ canonical.birth_year # NONE
    /\ scored[1].score >= 105
    /\ scored[2].record.birth_year = NONE
    /\ scored[2].score = 0
    /\ canonical.id \in DOMAIN db_persons
    /\ scored[2].record.id \notin DOMAIN db_persons

\* right after select_canonical: the tables are those it counted on
JustSelected ==
    /\ dpc = "merge_relationships"
    /\ Len(dups) = Len(duplicates[processed].records) - 1

\* C9: the canonical record has the maximum score of its cluster and is the
\* first record of the cluster, in input order, with that score; every
\* other record of the cluster is among the duplicates exactly once.
C9_SelectCanonical ==
    JustSelected =>
        LET records == duplicates[processed].records
        IN  \E i \in 1..Len(records) :
              /\ records[i] = canonical
              /\ \A j \in 1..Len(records) :
                    ScoreNow(records[j]) <= ScoreNow(canonical)
              /\ \A j \in 1..(i - 1) :
                    ScoreNow(records[j]) < ScoreNow(canonical)
              /\ \A j \in 1..Len(records) : j # i =>
                    Cardinality({k \in 1..Len(dups) : dups[k] = records[j]}) = 1

\* a cluster of three in which a later record ties with the canonical one
C9_Witness ==
    /\ JustSelected
    /\ Len(duplicates[processed].records) = 3
    /\ canonical = duplicates[processed].records[1]
    /\ ScoreNow(canonical) > 0
    /\ \E j \in 2..3 :
          ScoreNow(duplicates[processed].records[j]) = ScoreNow(canonical)

----------------------------------------------------------------------------
(* Properties of merge_relationships, merge_person_data and              *)
(* delete_duplicate, checked under SpecDedup                               *)

\* no marriage is stored in both orders
NoMarriageTwice(mt) ==
    \A m \in mt : m[1] # m[2] => <<m[2], m[1]>> \notin mt

\* no person has two alias rows with the same name
NoAliasTwice(al) == \A k \in DOMAIN al : al[k] <= 1

\* a committed merge_relationships is about to run / has just run
MergingRelationships == dpc = "merge_relationships" /\ ~dry_run

\* C11: a committed merge of a duplicate into its canonical record never
\* duplicates a row: when no relation holds two rows of the same content
\* before merge_relationships (parent_child by (parent, child), which the
\* unique constraint keeps, marriages by unordered pair, person_aliases by
\* (person, alias name)), none does after it.
C11_NeverDuplicatesARow ==
    [][(MergingRelationships /\ NoMarriageTwice(marriages)
           /\ NoAliasTwice(person_aliases))
        => (NoMarriageTwice(marriages') /\ NoAliasTwice(person_aliases'))]_vars

\* a committed merge of the duplicate dups[1] is under way
MergingDuplicate ==
    /\ ~dry_run
    /\ dpc \in {"merge_relationships", "merge_person_data", "delete_duplicate"}

ClusterIds ==
    {duplicates[processed].records[i].id :
        i \in 1..Len(duplicates[processed].records)}

Outsiders == DOMAIN db_persons \ ClusterIds

\* what the fields of a fetched record alone give it in score_record
FieldScore(r) == score_record(r, [total |-> 0])

\* C12: a committed merge preserves the relationships with persons outside
\* the cluster: through every step of the merge of a duplicate, each child,
\* parent and spouse outside the cluster that the duplicate or the canonical
\* record has, the canonical record has afterwards, and the canonical record
\* has at least the alias rows of both.
C12_RelationshipsPreserved ==
    [][MergingDuplicate =>
        LET can == canonical.id
            dup == dups[1].id
        IN  /\ \A x \in Outsiders :
                /\ (<<dup, x>> \in parent_child \/ <<can, x>> \in parent_child)
                      => <<can, x>> \in parent_child'
                /\ (<<x, dup>> \in parent_child \/ <<x, can>> \in parent_child)
                      => <<x, can>> \in parent_child'
                /\ (Married(marriages, dup, x) \/ Married(marriages, can, x))
                      => Married(marriages', can, x)
            /\ \A n \in AliasNames :
                  person_aliases'[<<can, n>>] >=
                      person_aliases[<<can, n>>] + person_aliases[<<dup, n>>]
    ]_vars

\* the first duplicate of a cluster had relationship rows, the canonical
\* record had none, and merge_relationships has given the canonical record
\* a row with a person outside the cluster
C12_Witness ==
    /\ ~dry_run
    /\ dpc = "merge_person_data"
    /\ Len(dups) = Len(scored) - 1
    /\ scored[1].score = FieldScore(canonical)
    /\ scored[2].score > FieldScore(dups[1])
    /\ \E x \in Outsiders :
          \/ <<canonical.id, x>> \in parent_child
          \/ <<x, canonical.id>> \in parent_child
          \/ Married(marriages, canonical.id, x)

\* C13: back-fill only fills null fields: a scalar field of the canonical
\* row that is not NULL in the table when merge_person_data runs for a
\* duplicate is left as it is by that merge.
C13_BackfillOnlyNull ==
    [][(dpc = "merge_person_data" /\ ~dry_run
           /\ canonical.id \in DOMAIN db_persons) =>
        LET row == db_persons[canonical.id]
            after == db_persons'[canonical.id]
        IN  /\ row.birth_year # NONE => after.birth_year = row.birth_year
            /\ row.death_year # NONE => after.death_year = row.death_year
            /\ row.gender # NoText => after.gender = row.gender
            /\ row.tribal_affiliation # NoText
                  => after.tribal_affiliation = row.tribal_affiliation
            /\ row.generation # NONE => after.generation = row.generation
    ]_vars

\* C14: notes are appended, not lost: when the committed merge of a cluster
\* is done, the notes of the canonical row contain its own original notes and
\* the notes of every merged duplicate.
C14_NotesAppended ==
    (~dry_run /\ dpc = "summary" /\ scored # <<>>) =>
        LET notes == db_persons[canonical.id].notes
        IN  \A k \in 1..Len(scored) :
                TruthyNotes(scored[k].record.notes)
                    => NotesWithin(scored[k].record.notes, notes)

\* every row of the three relationship tables references rows of persons
ReferencesPersons(ids, pct, mt, al) ==
    /\ \A r \in pct \cup mt : r[1] \in ids /\ r[2] \in ids
    /\ \A k \in DOMAIN al : al[k] > 0 => k[1] \in ids

\* the tables between the statement blocks of a committed merge_relationships
StatementBoundaries ==
    LET can == canonical.id
        dup == dups[1].id
        ids == DOMAIN db_persons
        pc1 == MoveParentOf(parent_child, can, dup)
        pc2 == MoveChildOf(pc1, can, dup)
        m1 == MoveSpouse1(marriages, can, dup)
        m2 == MoveSpouse2(m1, can, dup)
    IN  /\ ReferencesPersons(ids, pc1, marriages, person_aliases)
        /\ ReferencesPersons(ids, pc2, m1, person_aliases)
        /\ ReferencesPersons(ids, pc2, m2, person_aliases)
        /\ ReferencesPersons(ids, pc2, m2, MoveAliases(person_aliases, can, dup))

\* C15: the persons row of a duplicate is deleted last: a row leaves persons
\* only in delete_duplicate, it is the row of the duplicate under merge, no
\* relationship row references it any more and the back-fill from it has been
\* written; and at every statement boundary each row of parent_child,
\* marriages and person_aliases references existing persons rows.
C15_DeleteLast ==
    /\ [](/\ ReferencesPersons(DOMAIN db_persons, parent_child, marriages,
                               person_aliases)
          /\ MergingRelationships => StatementBoundaries)
    /\ [][DOMAIN db_persons' # DOMAIN db_persons =>
            /\ dpc = "delete_duplicate"
            /\ DOMAIN db_persons' = DOMAIN db_persons \ {dups[1].id}
            /\ RowsNow(dups[1].id) = 0
            /\ db_persons[canonical.id]
                  = MergedRow(db_persons[canonical.id], canonical, dups[1])
            /\ parent_child' = parent_child
            /\ marriages' = marriages
            /\ person_aliases' = person_aliases
       ]_vars

\* a committed run has deleted a duplicate that had relationship rows
C15_Witness ==
    /\ ~dry_run
    /\ dpc = "summary"
    /\ Len(scored) >= 2
    /\ scored[2].score > FieldScore(scored[2].record)
    /\ scored[2].record.id \notin DOMAIN db_persons

\* C16: re-running the committed merge is a no-op: a second committed run in
\* the same mode, on the tables the first run left, finds no cluster and
\* changes no row.
C16_SecondRunNoOp ==
    /\ [](runs = 2 => /\ duplicates = <<>>
                      /\ dpc \in {"analyze_duplicates", "summary"})
    /\ [][runs = 2 => UNCHANGED dbVars]_vars

\* the second run is through, after a first run that merged a cluster
C16_Witness ==
    /\ runs = 2
    /\ dpc = "summary"
    /\ Cardinality(DOMAIN db_persons) < Cardinality(PersonIds)

\* C28: a committed merge never creates a self-referential row.  The
\* tables start without one, and at no point of a run does parent_child hold
\* a row with parent_id = child_id or marriages a row with
\* spouse1_id = spouse2_id.
C28_NoSelfRow ==
    /\ \A r \in parent_child : r[1] # r[2]
    /\ \A r \in marriages : r[1] # r[2]

----------------------------------------------------------------------------
(* Properties of the fuzzy clustering, checked under SpecBirths *)

\* C29: in fuzzy mode no cluster holds two records with different non-null
\* birth years, and no duplicate is merged into a canonical record born in
\* another year.
C29_FuzzyOneBirthYear ==
    mode = "fuzzy" =>
        /\ \A c \in 1..Len(duplicates) :
              \A r1, r2 \in SeqSet(duplicates[c].records) :
                  (r1.birth_year # NONE /\ r2.birth_year # NONE)
                      => r1.birth_year = r2.birth_year
        /\ dups # <<>> =>
              \/ canonical.birth_year = NONE
              \/ dups[1].birth_year = NONE
              \/ dups[1].birth_year = canonical.birth_year

----------------------------------------------------------------------------
(* Properties of the canonical score, checked under SpecScore *)

\* place of a record in select_canonical's sorted list
RankOf(sorted, id) == CHOOSE k \in 1..Len(sorted) : sorted[k].record.id = id

\* the clusters analyze_duplicates may return on the current tables
ClustersNow ==
    UNION {LET found == analyze_duplicates(rows, m)
           IN  {found[k].records : k \in 1..Len(found)} :
           rows \in FetchOrders(db_persons), m \in {"exact", "fuzzy"}}

\* C10: when a call adds one factor to a record (a value for a NULL column,
\* or one more parent_child, marriages or person_aliases row), then in every
\* cluster the record is in, taken in the same input order, score_record
\* gives it no less than before and select_canonical ranks it no later
\* than before. (A record whose row and score are both as before has got no
\* factor.)
C10_ScoreMonotonic ==
    [][dpc = "api" /\ dpc' = "api" =>
        \A ranked \in
              {[before |-> ScoredList(records, parent_child, marriages,
                                      person_aliases),
                after |-> ScoredList(
                              [i \in 1..Len(records) |->
                                  FetchedRow(db_persons', records[i].id)],
                              parent_child', marriages', person_aliases')] :
               records \in ClustersNow} :
            \A cmp \in
                  {[i |-> i,
                    was |-> RankOf(SortByScore(ranked.before),
                                   ranked.before[i].record.id),
                    is |-> RankOf(SortByScore(ranked.after),
                                  ranked.before[i].record.id)] :
                   i \in {j \in 1..Len(ranked.before) :
                            ranked.after[j] # ranked.before[j]}} :
                /\ ranked.after[cmp.i].score >= ranked.before[cmp.i].score
                /\ cmp.is <= cmp.was
    ]_vars

\* a record that is not the first of its cluster has become canonical by the
\* rows the services added to it
C10_Witness ==
    /\ JustSelected
    /\ api_calls > 0
    /\ canonical # duplicates[processed].records[1]
    /\ RowsNow(canonical.id) > 0
    /\ ScoreNow(canonical) - 5 * RowsNow(canonical.id)
         <= ScoreNow(duplicates[processed].records[1])

----------------------------------------------------------------------------
(* Properties of concurrent create_marriage calls, checked under SpecMarry *)

\* C30: under every interleaving of the create_marriage calls at most one
\* marriages row exists for an unordered pair of persons, whether the calls
\* name the two spouses in the same or in swapped order.
C30_OneRowPerPair ==
    \A a, b \in PersonIds :
        a # b => Cardinality(marriages \cap {<<a, b>>, <<b, a>>}) <= 1

----------------------------------------------------------------------------
(* Properties of the normalizers, checked under SpecNormalize *)

\* C17: line normalization is idempotent: clean_line applied to a line that
\* clean_line returned, and normalize_text applied to a text that
\* normalize_text returned, return it unchanged.
C17_NormalizationIdempotent == [][passes = 1 => text' = text]_vars

----------------------------------------------------------------------------
(* Properties of preprocess_lines, checked under SpecPreprocess *)

\* lines[a] to lines[b] joined by single spaces, stripped first or as given
RECURSIVE JoinOf(_, _, _, _)
JoinOf(strip, lines, a, b) ==
    IF a = b THEN (IF strip THEN rstrip(lines[a]) ELSE lines[a])
    ELSE JoinOf(strip, lines, a, b - 1) \o <<" ">>
           \o (IF strip THEN rstrip(lines[b]) ELSE lines[b])

\* out is, in order, the joins of consecutive runs that cover lines[from..]
RECURSIVE Partitioned(_, _, _, _)
Partitioned(strip, lines, from, out) ==
    IF out = <<>> THEN from > Len(lines)
    ELSE \E b \in from..Len(lines) :
            /\ Head(out) = JoinOf(strip, lines, from, b)
            /\ Partitioned(strip, lines, b + 1, Tail(out))

\* C18 as stated: preprocess_lines terminates, and its output is an
\* order-preserving partition of the input: each logical line is the
\* space-joined concatenation of a contiguous run of input lines, every input
\* line is in exactly one logical line, and the order is kept.
C18_PartitionOfInput ==
    /\ <>(pp_i = Len(page_lines))
    /\ [](pp_i = Len(page_lines)
            => Partitioned(FALSE, page_lines, 1, pp_processed))

\* C18, amended: preprocess_lines terminates, and after every pass of its
\* loop the logical lines are, in order, the space-joined concatenations of
\* consecutive runs of the right-stripped input lines consumed so far.
C18_PartitionOfStripped ==
    /\ <>(pp_i = Len(page_lines))
    /\ [](Partitioned(TRUE, SubSeq(page_lines, 1, pp_i), 1, pp_processed))

\* a page is through on which lines were joined and a line ended in a space
C18_Witness ==
    /\ pp_i = Len(page_lines)
    /\ Len(pp_processed) >= 2
    /\ Len(pp_processed) + 2 <= Len(page_lines)
    /\ \E k \in 1..Len(page_lines) : page_lines[k] = <<"Al", " ", "\n">>

----------------------------------------------------------------------------
(* Properties of check_impossible_dates, checked under SpecQa *)

\* the issues a step of the loop has appended
Appended == SubSeq(issues', Len(issues) + 1, Len(issues'))

\* a year that is present and within [1600, 2024]
Plausible(y) == y # NONE /\ y >= 1600 /\ y <= 2024

\* C19: for a record whose birth_year and death_year are both within
\* [1600, 2024] with death_year < birth_year, check_impossible_dates emits
\* exactly one issue, DEATH_BEFORE_BIRTH of severity HIGH; for a record with
\* death_year >= birth_year or with a year missing it emits no
\* DEATH_BEFORE_BIRTH issue.
C19_DeathBeforeBirth ==
    [][qa_i' = qa_i + 1 =>
        \E p \in {qa_persons[qa_i + 1]} :
            /\ SubSeq(issues', 1, Len(issues)) = issues
            /\ (Plausible(p.birth_year) /\ Plausible(p.death_year)
                  /\ p.death_year < p.birth_year)
                 => /\ Len(Appended) = 1
                    /\ Appended[1].type = "DEATH_BEFORE_BIRTH"
                    /\ Appended[1].severity = "HIGH"
                    /\ Appended[1].name = Names[qa_i + 1]
            /\ (p.birth_year = NONE \/ p.death_year = NONE
                  \/ p.death_year >= p.birth_year)
                 => \A k \in 1..Len(Appended) :
                        Appended[k].type # "DEATH_BEFORE_BIRTH"
    ]_vars

\* a record born in 1950 and dead in 1600 has been checked, after a record
\* that has other issues
C19_Witness ==
    /\ qa_i = 2
    /\ qa_persons[2] = [birth_year |-> 1950, death_year |-> 1600]
    /\ Len(issues) >= 2
    /\ issues[Len(issues)].type = "DEATH_BEFORE_BIRTH"

====
